---- MODULE Spec2Model ----
(***************************************************************************)
(* EcoAgent: campus occupancy / resource dashboard.                        *)
(*                                                                         *)
(* The module holds one state machine per component:                       *)
(*   - the Budget-Gated Recommender of one analysis run (backend, design   *)
(*     section 4.5 and 5),                                                 *)
(*   - RoomConfigPanel's image detection and room edits,                   *)
(*   - MobileCameraDetection's camera / process-frame loop,                *)
(*   - RoomAnalysisPage.getOccupancyLevel,                                 *)
(*   - the demo-mode data generator (generateMockRoomData,                 *)
(*     generateMockBuildingData, generateMockCampusAnalysis),              *)
(*   - the recommendation filters of RecommendationPanel, BuildingCard     *)
(*     and RoomAnalysisDetail,                                             *)
(*   - the Simulation Engine over the RoomState store (backend, design     *)
(*     section 4.1 and 4.6),                                               *)
(*   - the Simulation page and the SimulationResult it shows,              *)
(*   - ChatPanel,                                                          *)
(*   - the scope effect of RoomConfigPanel,                                *)
(*   - ExcelUpload.                                                        *)
(* Every component has its own specification; the variables of the other   *)
(* components stay at their initial values in it.                          *)
(***************************************************************************)
EXTENDS Integers, Sequences, FiniteSets, TLC

VARIABLES
  \* ---- Budget-Gated Recommender (one analysis run) ----
  phase,             \* "idle" | "running" | "done" | "error"
  budget_level,      \* "low" | "medium" | "high"
  numBuildings,      \* buildings of the run
  roomsPer,          \* rooms per building of the run
  critical,          \* ids of the buildings the Aggregator flagged critical
  tokens_remaining,  \* the sequential token counter
  nextIdx,           \* position of the next entity in the priority order
  lock,              \* holder of the accounting mutex, 0 when free
  wpc,               \* worker -> "idle" | "take" | "calling" | "stop"
  wEnt,              \* worker -> the entity its call is for
  status,            \* entity -> "none" | "calling" | "ok" | "failed"
  lastOutcome,       \* how the latest call ended: "none" | "ok" | "failed" | "timeout"
  recs,              \* entity -> recommendation list
  attempted,         \* sequence of entities in the order calls were started
  callsStarted,      \* number of external calls started in the run
  metricsOf,         \* entities whose numeric metrics the Aggregator produced
  response,          \* the response of the run, NoResponse until it ends
  \* ---- RoomConfigPanel ----
  roomConfigs,       \* room id -> configuration of the room
  detectingRoom,     \* room id being detected, NoRoom when none
  detectionPreviews, \* room id -> person count of its preview, for some rooms
  detectionError,    \* NoError or the message of the failed detection
  cfgPending,        \* image detections in flight, each with its closure
  cfgCalls,          \* detections started so far
  cfgEdits,          \* manual edits made so far
  cfgHadFailure,     \* a detection has failed before
  cfgEvent,          \* the latest handler that ran, with its arguments
  \* ---- MobileCameraDetection ----
  isOpen,            \* the modal is shown
  isStreaming,       \* the camera stream is attached
  camRoomId,         \* the roomId state: "" or a room id
  personCount,
  occupancyLevel,
  capacity,
  loading,
  error,
  processedFrame,    \* NoFrame or the annotated frame of the latest result
  detectionHistory,  \* the latest detections, oldest first
  streamRef,         \* streamRef.current holds a MediaStream
  processingIntervalRef, \* NoTimer or the interval timer with its closure
  cameraPending,     \* getUserMedia requests awaiting the user's answer
  leakedStreams,     \* live MediaStreams no ref points to any more
  camInFlight,       \* process-frame requests sent since the latest stop
  camStale,          \* process-frame requests sent before the latest stop
  camStarts,         \* Start Detection clicks so far
  camFrames,         \* process-frame requests sent so far
  camEvent,          \* the latest handler that ran
  \* ---- RoomAnalysisPage ----
  rapRoom,           \* the room of the row being rendered
  sortBy,            \* "priority" | "occupancy" | "energy"
  rapLevel,          \* occupancyLevel of the row's latest render
  roomList,          \* the rooms state: the rooms extracted from the analysis
  filteredRooms,     \* the rooms the page lists, in order
  searchQuery,
  filterType,        \* "all" | "high-priority" | "low-priority" | a room type
  \* ---- demo-mode data generator ----
  mockEnv,           \* envParams of the call
  mockBuildingIdx,   \* position in buildingIds of the building being built, 0 if none
  mockNumRooms,      \* numRooms of the building being built
  mockRooms,         \* Object.values(rooms) of the building being built
  mockMultiplier,    \* energyMultiplier of the latest generateMockRoomData call, in its units
  mockBuildings,     \* Object.values(buildings), the buildings built so far
  mockCampus,        \* NoAnalysis or the object generateMockCampusAnalysis returned
  \* ---- recommendation filters ----
  frComponent,       \* the component rendered last, "none" before any render
  frRecommendations, \* the recommendations it was given
  frShown,           \* the recommendations it shows
  \* ---- Simulation Engine and RoomState store ----
  roomStore,         \* room id -> persisted RoomState
  simResult,         \* NoSimulation or the SimulationResult of the latest run
  simRuns,           \* simulation runs so far
  simWrites,         \* store writes so far
  \* ---- Simulation page ----
  templates,         \* the templates the page lists
  templatesPending,  \* the getTemplates request of the mount is in flight
  selectedTemplate,  \* NoTemplate or the template of the latest run
  pgResult,          \* NoResult or the response data of the latest run
  pgLoading,         \* the loading state of the page
  agentProgress,     \* the progress line
  pgNumRooms,        \* the numRooms state
  pgNumBuildings,    \* the numBuildings state
  pgBudgetLevel,     \* the budgetLevel state
  useCustomSettings,
  pgRuns,            \* the runSimulation calls that have not finished
  pgStarted,         \* runSimulation calls so far
  pgEdits,           \* changes of the controls so far
  pgSent,            \* NoRequest or the latest request sent to simulationAPI.run
  \* ---- ChatPanel ----
  messages,          \* the message list, oldest first
  input,             \* the text of the input box
  chatLoading,       \* the loading state of the panel
  chatPending,       \* chat requests in flight, each with its closure
  chatSends,         \* requests sent so far
  chatCleared,       \* clearChat has run and no message was sent since
  \* ---- RoomConfigPanel: scope effect ----
  scopeVersion,      \* "earlier" | "later": the version of the panel that runs
  scopeNumRooms,     \* the numRooms prop
  scopeNumBuildings, \* the numBuildings prop
  selectedRoomId,    \* NoRoom or the id of the selected room
  scopeRuns,         \* scope effects run since the mount
  scopeEvent,        \* the latest scope effect: its validRoomIds and what it did
  \* ---- ExcelUpload ----
  xlFile,            \* the file state: NoFile or the file selected last
  parsedData,        \* NoData or the campus data parsed last
  xlError,           \* NoError or the message shown
  xlReading,         \* files the FileReader is still reading
  xlUploads          \* files selected so far

recVars == <<phase, budget_level, numBuildings, roomsPer, critical,
             tokens_remaining, nextIdx, lock, wpc, wEnt, status, lastOutcome,
             recs, attempted, callsStarted, metricsOf, response>>

cfgVars == <<roomConfigs, detectingRoom, detectionPreviews, detectionError,
             cfgPending, cfgCalls, cfgEdits, cfgHadFailure, cfgEvent>>

camVars == <<isOpen, isStreaming, camRoomId, personCount, occupancyLevel,
             capacity, loading, error, processedFrame, detectionHistory,
             streamRef, processingIntervalRef, cameraPending, leakedStreams,
             camInFlight, camStale, camStarts, camFrames, camEvent>>

rapVars == <<rapRoom, sortBy, rapLevel, roomList, filteredRooms, searchQuery,
             filterType>>

mockVars == <<mockEnv, mockBuildingIdx, mockNumRooms, mockRooms, mockMultiplier,
              mockBuildings, mockCampus>>

frVars == <<frComponent, frRecommendations, frShown>>

simVars == <<roomStore, simResult, simRuns, simWrites>>

pgVars == <<templates, templatesPending, selectedTemplate, pgResult,
            pgLoading, agentProgress, pgNumRooms, pgNumBuildings,
            pgBudgetLevel, useCustomSettings, pgRuns, pgStarted, pgEdits,
            pgSent>>

chatVars == <<messages, input, chatLoading, chatPending, chatSends,
              chatCleared>>

scopeVars == <<scopeVersion, scopeNumRooms, scopeNumBuildings, selectedRoomId,
               scopeRuns, scopeEvent>>

xlVars == <<xlFile, parsedData, xlError, xlReading, xlUploads>>

vars == <<recVars, cfgVars, camVars, rapVars, mockVars, frVars, simVars,
          pgVars, chatVars, scopeVars, xlVars>>

-----------------------------------------------------------------------------
(* Bounds of the model *)
MaxBuildings == 2
MaxRoomsPer == 5
MaxCfgOps == 3
MaxPersonCount == 1
MaxStarts == 2
MaxFrames == 3
MaxOccupancy == 12
MaxCapacity == 10
MaxMockRooms == 2
MaxRecs == 3
MaxStoreWrites == 3
MaxStoreCount == 2
MaxSimRuns == 2
MaxPageRuns == 2
MaxPageEdits == 2
MaxListRooms == 3
MaxChatSends == 2
MaxScopeRooms == 3
MaxScopeBuildings == 2
MaxScopeRuns == 1
MaxScopeEdits == 1
MaxSheetRows == 2
MaxUploads == 1

-----------------------------------------------------------------------------
(***************************************************************************)
(* Budget-Gated Recommender                                                *)
(***************************************************************************)
LowCalls == 3
MediumCalls == 4
HighCalls == 6

\* The worker-pool limit of the external calls
PoolLimit == 2

BudgetLevels == {"low", "medium", "high"}

budget_to_call_count_low5(level) ==
  CASE level = "low" -> MediumCalls
    [] level = "medium" -> MediumCalls
    [] level = "high" -> HighCalls

budget_to_call_count_high3(level) ==
  CASE level = "low" -> LowCalls
    [] level = "medium" -> MediumCalls
    [] level = "high" -> LowCalls

budget_to_call_count(level) ==
  CASE level = "low" -> LowCalls
    [] level = "medium" -> MediumCalls
    [] level = "high" -> HighCalls

Campus == [kind |-> "campus", b |-> 0, r |-> 0]
Bldg(b) == [kind |-> "building", b |-> b, r |-> 0]
Room(b, r) == [kind |-> "room", b |-> b, r |-> r]

EntitiesOf(nb, rp) ==
  {Campus} \cup {Bldg(b) : b \in 1..nb}
           \cup {Room(b, r) : b \in 1..nb, r \in 1..rp}

Entities == EntitiesOf(numBuildings, roomsPer)

RECURSIVE AscSeq(_)
AscSeq(S) ==
  IF S = {} THEN <<>>
  ELSE LET m == CHOOSE x \in S : \A y \in S : x <= y
       IN <<m>> \o AscSeq(S \ {m})

BuildingSeq(S) == LET a == AscSeq(S) IN [i \in 1..Len(a) |-> Bldg(a[i])]

RoomSeq(S, rp) ==
  LET a == AscSeq(S)
  IN [i \in 1..(Len(a) * rp) |->
        Room(a[((i - 1) \div rp) + 1], ((i - 1) % rp) + 1)]

\* campus, critical buildings, remaining buildings, every room
PriorityOrderAllRooms(nb, rp, crit) ==
  <<Campus>> \o BuildingSeq(crit) \o BuildingSeq((1..nb) \ crit)
             \o RoomSeq(1..nb, rp)

\* campus, remaining buildings, critical buildings, rooms of critical buildings
PriorityOrderSwapped(nb, rp, crit) ==
  <<Campus>> \o BuildingSeq((1..nb) \ crit) \o BuildingSeq(crit)
             \o RoomSeq(crit, rp)

\* campus, critical buildings, remaining buildings, rooms of critical buildings
PriorityOrder(nb, rp, crit) ==
  <<Campus>> \o BuildingSeq(crit) \o BuildingSeq((1..nb) \ crit)
             \o RoomSeq(crit, rp)

queue == PriorityOrder(numBuildings, roomsPer, critical)

Workers == 1..PoolLimit

\* Rooms per building of a run: none, one, many
RoomCounts == {0, 1, MaxRoomsPer}

\* A step of the recommender touches no other component.
RecFrame == UNCHANGED <<cfgVars, camVars, rapVars, mockVars, frVars, simVars,
                        pgVars, chatVars, scopeVars, xlVars>>

NoEntity == [kind |-> "none", b |-> 0, r |-> 0]
NoResponse == [kind |-> "none"]

RecIdle ==
  /\ phase = "idle"
  /\ budget_level = "low"
  /\ numBuildings = 1
  /\ roomsPer = 0
  /\ critical = {}
  /\ tokens_remaining = 0
  /\ nextIdx = 1
  /\ lock = 0
  /\ wpc = [w \in Workers |-> "stop"]
  /\ wEnt = [w \in Workers |-> NoEntity]
  /\ status = [e \in EntitiesOf(1, 0) |-> "none"]
  /\ lastOutcome = "none"
  /\ recs = [e \in EntitiesOf(1, 0) |-> <<>>]
  /\ attempted = <<>>
  /\ callsStarted = 0
  /\ metricsOf = {}
  /\ response = NoResponse

\* A new analysis run: the Aggregator has produced the metrics of every entity,
\* the counter starts at the budget's call count.
StartRun(level, nb, rp, crit) ==
  /\ RecFrame
  /\ phase = "idle"
  /\ phase' = "running"
  /\ budget_level' = level
  /\ numBuildings' = nb
  /\ roomsPer' = rp
  /\ critical' = crit
  /\ tokens_remaining' = budget_to_call_count(level)
  /\ nextIdx' = 1
  /\ lock' = 0
  /\ wpc' = [w \in Workers |-> "idle"]
  /\ wEnt' = [w \in Workers |-> NoEntity]
  /\ status' = [e \in EntitiesOf(nb, rp) |-> "none"]
  /\ lastOutcome' = "none"
  /\ recs' = [e \in EntitiesOf(nb, rp) |-> <<>>]
  /\ attempted' = <<>>
  /\ callsStarted' = 0
  /\ metricsOf' = EntitiesOf(nb, rp)
  /\ response' = NoResponse

LockFreeAlways(w) == TRUE

LockFree(w) == lock = 0

CanIssue == tokens_remaining > 0 /\ nextIdx <= Len(queue)

\* A free worker enters the accounting section and looks at the counter.
WorkerCheck(w) ==
  /\ RecFrame
  /\ phase = "running"
  /\ wpc[w] = "idle"
  /\ LockFree(w)
  /\ IF CanIssue
       THEN /\ lock' = w
            /\ wpc' = [wpc EXCEPT ![w] = "take"]
       ELSE /\ lock' = lock
            /\ wpc' = [wpc EXCEPT ![w] = "stop"]
  /\ UNCHANGED <<phase, budget_level, numBuildings, roomsPer, critical,
                 tokens_remaining, nextIdx, wEnt, status, lastOutcome, recs,
                 attempted, callsStarted, metricsOf, response>>

\* Still in the accounting section: consume one token, take the next entity of
\* the priority order, start its external call, leave the section.
WorkerTake(w) ==
  /\ RecFrame
  /\ phase = "running"
  /\ wpc[w] = "take"
  /\ nextIdx <= Len(queue)
  /\ LET e == queue[nextIdx]
     IN /\ tokens_remaining' = tokens_remaining - 1
        /\ nextIdx' = nextIdx + 1
        /\ wEnt' = [wEnt EXCEPT ![w] = e]
        /\ status' = [status EXCEPT ![e] = "calling"]
        /\ attempted' = Append(attempted, e)
        /\ callsStarted' = callsStarted + 1
  /\ lock' = 0
  /\ wpc' = [wpc EXCEPT ![w] = "calling"]
  /\ UNCHANGED <<phase, budget_level, numBuildings, roomsPer, critical,
                 lastOutcome, recs, metricsOf, response>>

\* The external call returned a list of recommendations.
CallSuccess(w) ==
  /\ RecFrame
  /\ phase = "running"
  /\ wpc[w] = "calling"
  /\ status' = [status EXCEPT ![wEnt[w]] = "ok"]
  /\ lastOutcome' = "ok"
  /\ recs' = [recs EXCEPT ![wEnt[w]] = <<"recommendation">>]
  /\ wpc' = [wpc EXCEPT ![w] = "idle"]
  /\ wEnt' = [wEnt EXCEPT ![w] = NoEntity]
  /\ UNCHANGED <<phase, budget_level, numBuildings, roomsPer, critical,
                 tokens_remaining, nextIdx, lock, attempted, callsStarted,
                 metricsOf, response>>

\* A failure that gives the token back.
FailureRefunds(w, how) ==
  /\ status' = [status EXCEPT ![wEnt[w]] = "failed"]
  /\ lastOutcome' = how
  /\ recs' = [recs EXCEPT ![wEnt[w]] = <<>>]
  /\ wpc' = [wpc EXCEPT ![w] = "idle"]
  /\ wEnt' = [wEnt EXCEPT ![w] = NoEntity]
  /\ tokens_remaining' = tokens_remaining + 1
  /\ UNCHANGED <<phase, budget_level, numBuildings, roomsPer, critical,
                 nextIdx, lock, attempted, callsStarted, metricsOf, response>>

\* A failure that aborts the run.
FailurePropagates(w, how) ==
  /\ status' = [status EXCEPT ![wEnt[w]] = "failed"]
  /\ lastOutcome' = how
  /\ recs' = [recs EXCEPT ![wEnt[w]] = <<>>]
  /\ wpc' = [v \in Workers |-> "stop"]
  /\ wEnt' = [wEnt EXCEPT ![w] = NoEntity]
  /\ phase' = "error"
  /\ UNCHANGED <<budget_level, numBuildings, roomsPer, critical,
                 tokens_remaining, nextIdx, lock, attempted, callsStarted,
                 metricsOf, response>>

\* A failed call is caught: the entity gets the empty list, the token stays
\* consumed, the run goes on.
Failure(w, how) ==
  /\ status' = [status EXCEPT ![wEnt[w]] = "failed"]
  /\ lastOutcome' = how
  /\ recs' = [recs EXCEPT ![wEnt[w]] = <<>>]
  /\ wpc' = [wpc EXCEPT ![w] = "idle"]
  /\ wEnt' = [wEnt EXCEPT ![w] = NoEntity]
  /\ UNCHANGED <<phase, budget_level, numBuildings, roomsPer, critical,
                 tokens_remaining, nextIdx, lock, attempted, callsStarted,
                 metricsOf, response>>

CallFail(w) ==
  /\ RecFrame
  /\ phase = "running"
  /\ wpc[w] = "calling"
  /\ Failure(w, "failed")

\* The call's timeout elapsed: treated as a failure.
CallTimeout(w) ==
  /\ RecFrame
  /\ phase = "running"
  /\ wpc[w] = "calling"
  /\ Failure(w, "timeout")

\* Every worker has stopped: the response carries the metrics and whatever
\* recommendation lists were filled in.
Finish ==
  /\ RecFrame
  /\ phase = "running"
  /\ \A w \in Workers : wpc[w] = "stop"
  /\ phase' = "done"
  /\ response' = [kind |-> "analysis", metrics |-> metricsOf,
                  recommendations |-> recs]
  /\ UNCHANGED <<budget_level, numBuildings, roomsPer, critical,
                 tokens_remaining, nextIdx, lock, wpc, wEnt, status,
                 lastOutcome, recs, attempted, callsStarted, metricsOf>>

\* The response has been returned: nothing of the run is kept.
ReturnResponse ==
  /\ RecFrame
  /\ phase = "done"
  /\ phase' = "idle"
  /\ budget_level' = "low"
  /\ numBuildings' = 1
  /\ roomsPer' = 0
  /\ critical' = {}
  /\ tokens_remaining' = 0
  /\ nextIdx' = 1
  /\ lock' = 0
  /\ wpc' = [w \in Workers |-> "stop"]
  /\ wEnt' = [w \in Workers |-> NoEntity]
  /\ status' = [e \in EntitiesOf(1, 0) |-> "none"]
  /\ lastOutcome' = "none"
  /\ recs' = [e \in EntitiesOf(1, 0) |-> <<>>]
  /\ attempted' = <<>>
  /\ callsStarted' = 0
  /\ metricsOf' = {}
  /\ response' = NoResponse

RecStep ==
  \/ \E w \in Workers : WorkerCheck(w)
  \/ \E w \in Workers : WorkerTake(w)
  \/ \E w \in Workers : CallSuccess(w)
  \/ \E w \in Workers : CallFail(w)
  \/ \E w \in Workers : CallTimeout(w)
  \/ Finish

-----------------------------------------------------------------------------
(***************************************************************************)
(* RoomConfigPanel: image detection and room edits                         *)
(***************************************************************************)
CfgRoomIds == {"b1-r1", "b2-r1"}

NoRoom == "null"
NoError == "null"
DetectionFailedMessage == "Detection failed. Make sure the backend is running."

\* globalConfig, the prop every new room is initialised from
globalConfig == [avgOccupancy |-> 0, lightsOn |-> TRUE]

\* The configuration the scope effect gives a room that was not present.
NewRoomConfig ==
  [avgOccupancy |-> globalConfig.avgOccupancy,
   lightsOn |-> globalConfig.lightsOn,
   isModified |-> FALSE]

ConfigKeys == {"avgOccupancy", "lightsOn"}

ValuesOf(key) ==
  IF key = "avgOccupancy" THEN 0..MaxPersonCount ELSE BOOLEAN

\* { ...config, [key]: value, isModified: true }
WithKey(config, key, value) ==
  [[config EXCEPT ![key] = value] EXCEPT !.isModified = TRUE]

\* handleRoomChange that leaves isModified alone
RoomChangeOfKeepsFlag(configs, roomId, key, value) ==
  [configs EXCEPT ![roomId] = [configs[roomId] EXCEPT ![key] = value]]

\* handleRoomChange that adds the value to the one the room has
RoomChangeOfAdds(configs, roomId, key, value) ==
  [configs EXCEPT ![roomId] =
     WithKey(configs[roomId], key,
             IF key = "avgOccupancy" THEN configs[roomId][key] + value
             ELSE value)]

\* handleRoomChange computed from the roomConfigs of one render:
\* { ...roomConfigs, [roomId]: { ...roomConfigs[roomId], [key]: value, isModified: true } }
RoomChangeOf(configs, roomId, key, value) ==
  [configs EXCEPT ![roomId] = WithKey(configs[roomId], key, value)]

\* Latest writes to avgOccupancy that a detection in flight has seen complete:
\* a write to roomId replaces what was known of that room.
PeersAfterWrite(peers, roomId) == {q \in peers : q[1] # roomId}

CfgIdle ==
  /\ roomConfigs = [id \in CfgRoomIds |-> NewRoomConfig]
  /\ detectingRoom = NoRoom
  /\ detectionPreviews = [id \in {} |-> 0]
  /\ detectionError = NoError
  /\ cfgPending = {}
  /\ cfgCalls = 0
  /\ cfgEdits = 0
  /\ cfgHadFailure = FALSE
  /\ cfgEvent = [kind |-> "mount"]

\* A step of the panel touches no other component.
CfgFrame == UNCHANGED <<recVars, camVars, rapVars, mockVars, frVars, simVars,
                        pgVars, chatVars, scopeVars, xlVars>>

\* handleImageDetect up to its await: the call is in flight and holds the
\* roomConfigs of the render that created the handler.
HandleImageDetect(roomId, hasFile) ==
  /\ CfgFrame
  /\ cfgCalls + cfgEdits < MaxCfgOps
  /\ IF ~hasFile
       THEN UNCHANGED cfgVars
       ELSE /\ detectingRoom' = roomId
            /\ detectionError' = NoError
            /\ cfgCalls' = cfgCalls + 1
            /\ cfgPending' = cfgPending \cup
                 {[id |-> cfgCalls + 1, roomId |-> roomId,
                   closure |-> roomConfigs, peers |-> {}]}
            /\ cfgEvent' = [kind |-> "detect", roomId |-> roomId]
            /\ UNCHANGED <<roomConfigs, detectionPreviews, cfgEdits,
                           cfgHadFailure>>

\* The rest of handleImageDetect that skips the finally block.
DetectRejectedNoFinally(p) ==
  /\ detectionError' = DetectionFailedMessage
  /\ UNCHANGED <<detectingRoom, roomConfigs, detectionPreviews>>

\* handleImageDetect after the await, the call resolved with person_count:
\* handleRoomChange of the handler's own render, the preview, then finally.
DetectResolved(p, person_count) ==
  /\ roomConfigs' = RoomChangeOf(p.closure, p.roomId, "avgOccupancy", person_count)
  /\ detectionPreviews' =
       [id \in DOMAIN detectionPreviews \cup {p.roomId} |->
          IF id = p.roomId THEN person_count ELSE detectionPreviews[id]]
  /\ detectingRoom' = NoRoom
  /\ UNCHANGED detectionError

\* handleImageDetect after the await, the call rejected: catch, then finally.
DetectRejected(p) ==
  /\ detectionError' = DetectionFailedMessage
  /\ detectingRoom' = NoRoom
  /\ UNCHANGED <<roomConfigs, detectionPreviews>>

ImageDetectSucceeds(p, person_count) ==
  /\ CfgFrame
  /\ p \in cfgPending
  /\ DetectResolved(p, person_count)
  /\ cfgPending' =
       {[q EXCEPT !.peers = PeersAfterWrite(q.peers, p.roomId)
                            \cup {<<p.roomId, person_count>>}] :
          q \in cfgPending \ {p}}
  /\ cfgEvent' = [kind |-> "detected", roomId |-> p.roomId,
                  person_count |-> person_count, peers |-> p.peers]
  /\ UNCHANGED <<cfgCalls, cfgEdits, cfgHadFailure>>

ImageDetectFails(p) ==
  /\ CfgFrame
  /\ p \in cfgPending
  /\ DetectRejected(p)
  /\ cfgPending' = cfgPending \ {p}
  /\ cfgHadFailure' = TRUE
  /\ cfgEvent' = [kind |-> "detect_failed", roomId |-> p.roomId]
  /\ UNCHANGED <<cfgCalls, cfgEdits>>

\* handleRoomChange from a control of the current render.
HandleRoomChange(roomId, key, value) ==
  /\ CfgFrame
  /\ cfgCalls + cfgEdits < MaxCfgOps
  /\ cfgEdits' = cfgEdits + 1
  /\ roomConfigs' = RoomChangeOf(roomConfigs, roomId, key, value)
  /\ cfgPending' =
       IF key = "avgOccupancy"
         THEN {[q EXCEPT !.peers = PeersAfterWrite(q.peers, roomId)] :
                 q \in cfgPending}
         ELSE cfgPending
  /\ cfgEvent' = [kind |-> "edit", roomId |-> roomId, key |-> key,
                  value |-> value,
                  repeated |-> /\ cfgEvent.kind = "edit"
                               /\ cfgEvent.roomId = roomId
                               /\ cfgEvent.key = key
                               /\ cfgEvent.value = value]
  /\ UNCHANGED <<detectingRoom, detectionPreviews, detectionError, cfgCalls,
                 cfgHadFailure>>

\* clearDetectionPreview
ClearDetectionPreview(roomId) ==
  /\ CfgFrame
  /\ roomId \in DOMAIN detectionPreviews
  /\ detectionPreviews' =
       [id \in DOMAIN detectionPreviews \ {roomId} |-> detectionPreviews[id]]
  /\ cfgEvent' = [kind |-> "clear_preview", roomId |-> roomId]
  /\ UNCHANGED <<roomConfigs, detectingRoom, detectionError, cfgPending,
                 cfgCalls, cfgEdits, cfgHadFailure>>

-----------------------------------------------------------------------------
(***************************************************************************)
(* MobileCameraDetection: camera, interval timer, process-frame requests   *)
(***************************************************************************)
HistoryKeep == 10

NoFrame == "null"
NoTimer == [set |-> FALSE, roomId |-> ""]
CamRoomIds == {"", "sci-101"}

\* Responses of /api/detection/process-frame
FrameResults ==
  {[person_count |-> 3, occupancy_level |-> "low", capacity |-> 30,
    output_frame |-> "frame-a"],
   [person_count |-> 25, occupancy_level |-> "high", capacity |-> 30,
    output_frame |-> "frame-b"]}

\* .slice(-10)
LastEntries(h) ==
  IF Len(h) > HistoryKeep THEN SubSeq(h, Len(h) - HistoryKeep + 1, Len(h))
  ELSE h

\* The <video> and <canvas> elements are mounted, so the refs are set.
videoRefSet == isOpen /\ isStreaming
canvasRefSet == isOpen

CamIdle ==
  /\ isOpen = FALSE
  /\ isStreaming = FALSE
  /\ camRoomId = ""
  /\ personCount = 0
  /\ occupancyLevel = "low"
  /\ capacity = 0
  /\ loading = FALSE
  /\ error = ""
  /\ processedFrame = NoFrame
  /\ detectionHistory = <<>>
  /\ streamRef = FALSE
  /\ processingIntervalRef = NoTimer
  /\ cameraPending = 0
  /\ leakedStreams = 0
  /\ camInFlight = 0
  /\ camStale = 0
  /\ camStarts = 0
  /\ camFrames = 0
  /\ camEvent = [kind |-> "mount", afterStop |-> FALSE]

\* A step of the camera component touches no other component.
CamFrame == UNCHANGED <<recVars, cfgVars, rapVars, mockVars, frVars, simVars,
                        pgVars, chatVars, scopeVars, xlVars>>

\* The floating button
OpenModal ==
  /\ CamFrame
  /\ ~isOpen
  /\ isOpen' = TRUE
  /\ camEvent' = [kind |-> "open", afterStop |-> FALSE]
  /\ UNCHANGED <<isStreaming, camRoomId, personCount, occupancyLevel, capacity,
                 loading, error, processedFrame, detectionHistory, streamRef,
                 processingIntervalRef, cameraPending, leakedStreams,
                 camInFlight, camStale, camStarts, camFrames>>

\* The room input, disabled while streaming
SetRoomId(v) ==
  /\ CamFrame
  /\ isOpen
  /\ ~isStreaming
  /\ camRoomId' = v
  /\ camEvent' = [kind |-> "room", afterStop |-> FALSE]
  /\ UNCHANGED <<isOpen, isStreaming, personCount, occupancyLevel, capacity,
                 loading, error, processedFrame, detectionHistory, streamRef,
                 processingIntervalRef, cameraPending, leakedStreams,
                 camInFlight, camStale, camStarts, camFrames>>

\* startAutoProcessing, with startCamera up to its await
StartAutoProcessingClick ==
  /\ CamFrame
  /\ isOpen
  /\ ~isStreaming
  /\ camRoomId # ""
  /\ ~loading
  /\ camStarts < MaxStarts
  /\ camStarts' = camStarts + 1
  /\ error' = ""
  /\ cameraPending' = cameraPending + 1
  /\ processingIntervalRef' = [set |-> TRUE, roomId |-> camRoomId]
  /\ camEvent' = [kind |-> "start", afterStop |-> FALSE]
  /\ UNCHANGED <<isOpen, isStreaming, camRoomId, personCount, occupancyLevel,
                 capacity, loading, processedFrame, detectionHistory, streamRef,
                 leakedStreams, camInFlight, camStale, camFrames>>

\* startCamera after the await: getUserMedia resolved with a stream.
CameraGranted ==
  /\ CamFrame
  /\ cameraPending > 0
  /\ cameraPending' = cameraPending - 1
  /\ leakedStreams' = IF streamRef THEN leakedStreams + 1 ELSE leakedStreams
  /\ streamRef' = TRUE
  /\ isStreaming' = TRUE
  /\ camEvent' = [kind |-> "granted", afterStop |-> FALSE]
  /\ UNCHANGED <<isOpen, camRoomId, personCount, occupancyLevel, capacity,
                 loading, error, processedFrame, detectionHistory,
                 processingIntervalRef, camInFlight, camStale, camStarts,
                 camFrames>>

\* startCamera after the await: getUserMedia rejected.
CameraDenied ==
  /\ CamFrame
  /\ cameraPending > 0
  /\ cameraPending' = cameraPending - 1
  /\ error' = "Camera access failed"
  /\ camEvent' = [kind |-> "denied", afterStop |-> FALSE]
  /\ UNCHANGED <<isOpen, isStreaming, camRoomId, personCount, occupancyLevel,
                 capacity, loading, processedFrame, detectionHistory, streamRef,
                 processingIntervalRef, leakedStreams, camInFlight, camStale,
                 camStarts, camFrames>>

\* captureAndProcess up to its await, with the roomId of the closure that runs
captureAndProcess(closureRoomId) ==
  IF ~videoRefSet \/ ~canvasRefSet \/ closureRoomId = ""
    THEN /\ error' = "Camera not ready or room not selected"
         /\ UNCHANGED <<loading, camInFlight, camFrames>>
    ELSE /\ loading' = TRUE
         /\ error' = ""
         /\ camInFlight' = camInFlight + 1
         /\ camFrames' = camFrames + 1

\* The 2-second interval fires.
IntervalTick ==
  /\ CamFrame
  /\ processingIntervalRef.set
  /\ camFrames < MaxFrames
  /\ captureAndProcess(processingIntervalRef.roomId)
  /\ camEvent' = [kind |-> "tick", afterStop |-> FALSE]
  /\ UNCHANGED <<isOpen, isStreaming, camRoomId, personCount, occupancyLevel,
                 capacity, processedFrame, detectionHistory, streamRef,
                 processingIntervalRef, cameraPending, leakedStreams, camStale,
                 camStarts>>

\* The Capture Frame button
CaptureClick ==
  /\ CamFrame
  /\ isOpen
  /\ isStreaming
  /\ ~loading
  /\ camFrames < MaxFrames
  /\ captureAndProcess(camRoomId)
  /\ camEvent' = [kind |-> "capture", afterStop |-> FALSE]
  /\ UNCHANGED <<isOpen, isStreaming, camRoomId, personCount, occupancyLevel,
                 capacity, processedFrame, detectionHistory, streamRef,
                 processingIntervalRef, cameraPending, leakedStreams, camStale,
                 camStarts>>

\* captureAndProcess after the await, the response was ok
applyResult(result) ==
  /\ personCount' = result.person_count
  /\ occupancyLevel' = result.occupancy_level
  /\ capacity' = result.capacity
  /\ processedFrame' = result.output_frame
  /\ detectionHistory' =
       LastEntries(Append(detectionHistory,
                          [count |-> result.person_count,
                           level |-> result.occupancy_level]))
  /\ loading' = FALSE

\* A process-frame response arrives; stale tells whether its request was sent
\* before the latest stop.
FrameResponse(result, stale) ==
  /\ CamFrame
  /\ IF stale
       THEN camStale > 0 /\ camStale' = camStale - 1 /\ UNCHANGED camInFlight
       ELSE camInFlight > 0 /\ camInFlight' = camInFlight - 1
            /\ UNCHANGED camStale
  /\ applyResult(result)
  /\ camEvent' = [kind |-> "response", afterStop |-> stale]
  /\ UNCHANGED <<isOpen, isStreaming, camRoomId, error, streamRef,
                 processingIntervalRef, cameraPending, leakedStreams, camStarts,
                 camFrames>>

\* The request failed or the response was not ok: the catch block.
FrameError(stale) ==
  /\ CamFrame
  /\ IF stale
       THEN camStale > 0 /\ camStale' = camStale - 1 /\ UNCHANGED camInFlight
       ELSE camInFlight > 0 /\ camInFlight' = camInFlight - 1
            /\ UNCHANGED camStale
  /\ error' = "Detection failed"
  /\ loading' = FALSE
  /\ camEvent' = [kind |-> "response_error", afterStop |-> stale]
  /\ UNCHANGED <<isOpen, isStreaming, camRoomId, personCount, occupancyLevel,
                 capacity, processedFrame, detectionHistory, streamRef,
                 processingIntervalRef, cameraPending, leakedStreams, camStarts,
                 camFrames>>

\* stopAutoProcessing with stopCamera: the timer is cleared, the stream the
\* ref holds is stopped; requests in flight are left alone.
stopAutoProcessing ==
  /\ processingIntervalRef' = NoTimer
  /\ streamRef' = FALSE
  /\ isStreaming' = FALSE
  /\ processedFrame' = NoFrame
  /\ camStale' = camStale + camInFlight
  /\ camInFlight' = 0

\* The Stop button
StopClick ==
  /\ CamFrame
  /\ isOpen
  /\ isStreaming
  /\ stopAutoProcessing
  /\ camEvent' = [kind |-> "stop", afterStop |-> FALSE]
  /\ UNCHANGED <<isOpen, camRoomId, personCount, occupancyLevel, capacity,
                 loading, error, detectionHistory, cameraPending, leakedStreams,
                 camStarts, camFrames>>

\* The close button of the modal: setIsOpen(false); stopAutoProcessing()
CloseModal ==
  /\ CamFrame
  /\ isOpen
  /\ isOpen' = FALSE
  /\ stopAutoProcessing
  /\ camEvent' = [kind |-> "close", afterStop |-> FALSE]
  /\ UNCHANGED <<camRoomId, personCount, occupancyLevel, capacity, loading,
                 error, detectionHistory, cameraPending, leakedStreams,
                 camStarts, camFrames>>

-----------------------------------------------------------------------------
(***************************************************************************)
(* RoomAnalysisPage: occupancy level of a room row, and the filtered and   *)
(* sorted list of rooms                                                    *)
(***************************************************************************)
SortKeys == {"priority", "occupancy", "energy"}

\* (occupancy / capacity) * 100 as the exact quotient num / den, den > 0.  The
\* double the code computes compares with 30 and 70 as the exact quotient does
\* for all integer occupancies and capacities up to 2000.
PercentageOf(occupancy, roomCapacity) ==
  [num |-> occupancy * 100, den |-> roomCapacity]

\* percentage >= n
AtLeast(percentage, n) == percentage.num >= n * percentage.den

\* getOccupancyLevel with strict comparisons
getOccupancyLevelStrict(occupancy, roomCapacity) ==
  IF roomCapacity = 0 THEN "unknown"
  ELSE LET percentage == PercentageOf(occupancy, roomCapacity)
       IN IF percentage.num > 70 * percentage.den THEN "high"
          ELSE IF percentage.num > 30 * percentage.den THEN "medium"
          ELSE "low"

getOccupancyLevel(occupancy, roomCapacity) ==
  IF roomCapacity = 0 THEN "unknown"
  ELSE LET percentage == PercentageOf(occupancy, roomCapacity)
       IN IF AtLeast(percentage, 70) THEN "high"
          ELSE IF AtLeast(percentage, 30) THEN "medium"
          ELSE "low"

RapRooms ==
  [current_occupancy : 0..MaxOccupancy, capacity : 0..MaxCapacity]

\* The rooms of the analysis.  estimated_energy_kw is in hundredths of a kW;
\* searchable holds the queries that room_id, building_name or room_type
\* contain in lower case.
RoomCatalogue ==
  {[room_id |-> "sci-101", room_type |-> "lab", current_occupancy |-> 2,
    estimated_energy_kw |-> 50, equipment_running |-> 1,
    temperature_comfort |-> "comfortable", estimated_water_lph |-> 3,
    searchable |-> {"lab", "sci"}],
   [room_id |-> "sci-102", room_type |-> "classroom", current_occupancy |-> 20,
    estimated_energy_kw |-> 100, equipment_running |-> 1,
    temperature_comfort |-> "comfortable", estimated_water_lph |-> 3,
    searchable |-> {"sci"}],
   [room_id |-> "lib-101", room_type |-> "library", current_occupancy |-> 0,
    estimated_energy_kw |-> 30, equipment_running |-> 2,
    temperature_comfort |-> "comfortable", estimated_water_lph |-> 0,
    searchable |-> {}],
   [room_id |-> "lib-102", room_type |-> "lab", current_occupancy |-> 0,
    estimated_energy_kw |-> 0, equipment_running |-> 0,
    temperature_comfort |-> "comfortable", estimated_water_lph |-> 0,
    searchable |-> {"lab"}]}

SearchQueries == {"", "  ", "lab", "sci"}

\* searchQuery.trim() of the queries
TrimOf(query) == IF query = "  " THEN "" ELSE query

FilterTypes == {"all", "high-priority", "low-priority", "lab", "classroom"}

\* Sequences of at most n distinct elements of S
RECURSIVE DistinctSeqs(_, _)
DistinctSeqs(S, n) ==
  IF n = 0 THEN {<<>>}
  ELSE LET shorter == DistinctSeqs(S, n - 1)
       IN shorter \cup
            UNION {{Append(s, x) : x \in S \ {s[i] : i \in 1..Len(s)}} :
                     s \in {q \in shorter : Len(q) = n - 1}}

getRoomPriority(room) ==
  LET issues ==
        (IF /\ room.estimated_energy_kw # 0
            /\ room.current_occupancy # 0
            /\ room.estimated_energy_kw > 8 * room.current_occupancy
         THEN {"high-energy"} ELSE {})
        \cup (IF room.current_occupancy = 0 /\ room.equipment_running > 0
              THEN {"idle-equipment"} ELSE {})
        \cup (IF room.temperature_comfort \in {"too_hot", "too_cold"}
              THEN {"temperature"} ELSE {})
        \cup (IF room.estimated_water_lph > 10 /\ room.current_occupancy = 0
              THEN {"water-waste"} ELSE {})
  IN IF issues # {} THEN "high" ELSE "medium"

\* priorityOrder[priority]
priorityOrder(priority) ==
  CASE priority = "high" -> 0
    [] priority = "medium" -> 1
    [] OTHER -> 2

\* priorityOrder[priority] || 2: a value of 0 is falsy and gives 2
priorityKey(priority) ==
  IF priorityOrder(priority) = 0 THEN 2 ELSE priorityOrder(priority)

\* The value the comparator of filtered.sort returns for (a, b)
compareRooms(key, a, b) ==
  CASE key = "priority" ->
         priorityKey(getRoomPriority(a)) - priorityKey(getRoomPriority(b))
    [] key = "occupancy" -> b.current_occupancy - a.current_occupancy
    [] key = "energy" -> b.estimated_energy_kw - a.estimated_energy_kw
    [] OTHER -> 0

\* e put into the sorted sequence s behind every element that does not
\* compare greater
InsertSorted(key, s, e) ==
  LET before == {i \in 0..Len(s) :
                   \A j \in 1..i : compareRooms(key, s[j], e) <= 0}
      at == CHOOSE i \in before : \A k \in before : k <= i
  IN SubSeq(s, 1, at) \o <<e>> \o SubSeq(s, at + 1, Len(s))

\* Array.prototype.sort with the comparator: a stable sort
RECURSIVE SortRooms(_, _)
SortRooms(key, s) ==
  IF s = <<>> THEN <<>>
  ELSE InsertSorted(key, SortRooms(key, SubSeq(s, 1, Len(s) - 1)), s[Len(s)])

SearchKeeps(query, room) == query \in room.searchable

TypeKeeps(type, room) ==
  CASE type = "high-priority" -> getRoomPriority(room) = "high"
    [] type = "low-priority" -> getRoomPriority(room) # "high"
    [] OTHER -> room.room_type = type

\* The list filterAndSortRooms passes to setFilteredRooms
filterAndSortRooms(list, query, type, key) ==
  LET searched == IF TrimOf(query) # ""
                  THEN SelectSeq(list, LAMBDA room : SearchKeeps(query, room))
                  ELSE list
      typed == IF type # "all"
               THEN SelectSeq(searched, LAMBDA room : TypeKeeps(type, room))
               ELSE searched
  IN SortRooms(key, typed)

\* The list states of the page before any analysis has arrived
RapListIdle ==
  /\ roomList = <<>>
  /\ filteredRooms = <<>>
  /\ searchQuery = ""
  /\ filterType = "all"

RapIdle ==
  /\ rapRoom = [current_occupancy |-> 0, capacity |-> 0]
  /\ sortBy = "priority"
  /\ rapLevel = "unrendered"
  /\ RapListIdle

RapInit ==
  /\ rapRoom \in RapRooms
  /\ sortBy = "priority"
  /\ rapLevel = "unrendered"
  /\ RapListIdle

\* A step of the page touches no other component.
RapFrame == UNCHANGED <<recVars, cfgVars, camVars, mockVars, frVars, simVars,
                        pgVars, chatVars, scopeVars, xlVars>>

\* The row of the room is rendered.
RenderRoom ==
  /\ RapFrame
  /\ rapLevel' = getOccupancyLevel(rapRoom.current_occupancy, rapRoom.capacity)
  /\ UNCHANGED <<rapRoom, sortBy, roomList, filteredRooms, searchQuery,
                 filterType>>

\* The sort select changes; the page renders again and the effect runs
\* filterAndSortRooms.
SetSortBy(key) ==
  /\ RapFrame
  /\ sortBy' = key
  /\ rapLevel' = getOccupancyLevel(rapRoom.current_occupancy, rapRoom.capacity)
  /\ filteredRooms' =
       filterAndSortRooms(roomList, searchQuery, filterType, key)
  /\ UNCHANGED <<rapRoom, roomList, searchQuery, filterType>>

\* New analysis data arrives for the row; the page renders again.
SetRoom(room) ==
  /\ RapFrame
  /\ rapRoom' = room
  /\ rapLevel' = getOccupancyLevel(room.current_occupancy, room.capacity)
  /\ UNCHANGED <<sortBy, roomList, filteredRooms, searchQuery, filterType>>

\* extractRoomData: the rooms of a new analysis; the effect runs
\* filterAndSortRooms.
SetRooms(allRooms) ==
  /\ RapFrame
  /\ roomList' = allRooms
  /\ filteredRooms' =
       filterAndSortRooms(allRooms, searchQuery, filterType, sortBy)
  /\ UNCHANGED <<rapRoom, sortBy, rapLevel, searchQuery, filterType>>

\* The search box changes; the effect runs filterAndSortRooms.
SetSearchQuery(query) ==
  /\ RapFrame
  /\ searchQuery' = query
  /\ filteredRooms' = filterAndSortRooms(roomList, query, filterType, sortBy)
  /\ UNCHANGED <<rapRoom, sortBy, rapLevel, roomList, filterType>>

\* The filter select changes; the effect runs filterAndSortRooms.
SetFilterType(type) ==
  /\ RapFrame
  /\ filterType' = type
  /\ filteredRooms' = filterAndSortRooms(roomList, searchQuery, type, sortBy)
  /\ UNCHANGED <<rapRoom, sortBy, rapLevel, roomList, searchQuery>>

-----------------------------------------------------------------------------
(***************************************************************************)
(* Demo-mode data generator: generateMockRoomData,                         *)
(* generateMockBuildingData, generateMockCampusAnalysis                    *)
(*                                                                         *)
(* A number with decimals is kept exact, as the quotient [num, den] with   *)
(* den > 0.  A value of Math.random() is given in hundredths, 0..99.       *)
(* Values the code rounds with toFixed(k) are kept in units of 10^-k:      *)
(* estimated_energy_kw and total_energy_kw in hundredths of a kW,          *)
(* occupancy_rate in tenths of a percent.                                  *)
(***************************************************************************)
RECURSIVE GCD(_, _)
GCD(a, b) == IF b = 0 THEN a ELSE GCD(b, a % b)

Abs(n) == IF n < 0 THEN 0 - n ELSE n

Min(a, b) == IF a < b THEN a ELSE b

\* n / d in lowest terms, d > 0
Quot(n, d) ==
  LET g == GCD(Abs(n), d)
  IN [num |-> n \div g, den |-> d \div g]

\* parseFloat(q.toFixed(k)) in units of 10^-k, scale = 10^k: the nearest
\* multiple.  When the exact value lies halfway between two multiples, the
\* rounding error of the double decides; tieUp says it lies at or above.
ToFixedUnits(q, scale, tieUp) ==
  LET n == 2 * Abs(q.num) * scale
      lo == n \div (2 * q.den)
      rest == n % (2 * q.den)
      r == IF rest > q.den \/ (rest = q.den /\ tieUp) THEN lo + 1 ELSE lo
  IN IF q.num < 0 THEN 0 - r ELSE r

\* The building ids of the campus: three of the code's five
buildingIds == <<"lib", "sci", "cafe">>

\* baseEnergy of a room of the building, in tenths of a kW
baseEnergyOf(buildingId) ==
  CASE buildingId = "lib" -> 25
    [] buildingId = "sci" -> 80
    [] buildingId = "eng" -> 65
    [] buildingId = "dorm" -> 15
    [] buildingId = "cafe" -> 120
    [] OTHER -> 30

\* getTimeBasedOccupancy, in tenths
getTimeBasedOccupancy(hour) ==
  IF hour >= 9 /\ hour <= 17 THEN 7
  ELSE IF hour >= 18 /\ hour <= 22 THEN 4
  ELSE 1

\* envParams = {}: an absent avg_occupancy or computers_count is 0, absent
\* lights_on and ac_on are not false, an absent fans_on is falsy
DefaultEnv ==
  [avg_occupancy |-> 0, lights_on |-> TRUE, ac_on |-> TRUE, fans_on |-> FALSE,
   computers_count |-> 0]

\* energyMultiplier is kept in units of 1 / (MultiplierUnit * capacity):
\* tenths of the capacity for 0.3 + occupancyPct / 100 * 0.7, then a factor
\* of 10, 10, 10 and 20 for the four adjustments
MultiplierUnit == 200000

\* energyMultiplier with the lights and the AC adjustments the wrong way round
energyMultiplierOfInverted(envParams, occupancy, roomCapacity) ==
  (3 * roomCapacity + 7 * occupancy)
    * (IF envParams.lights_on = FALSE THEN 13 ELSE 10)
    * (IF envParams.ac_on = FALSE THEN 14 ELSE 10)
    * (IF envParams.fans_on THEN 11 ELSE 10)
    * (IF envParams.computers_count > 0 THEN 20 + envParams.computers_count
       ELSE 20)

\* energyMultiplier of generateMockRoomData:
\*   let energyMultiplier = 0.3 + occupancyPct / 100 * 0.7;
\*   if (envParams.lights_on === false) energyMultiplier *= 0.7;
\*   if (envParams.ac_on === false) energyMultiplier *= 0.6;
\*   if (envParams.fans_on) energyMultiplier *= 1.1;
\*   if (envParams.computers_count > 0)
\*     energyMultiplier *= (1 + envParams.computers_count * 0.05);
energyMultiplierOf(envParams, occupancy, roomCapacity) ==
  (3 * roomCapacity + 7 * occupancy)
    * (IF envParams.lights_on = FALSE THEN 7 ELSE 10)
    * (IF envParams.ac_on = FALSE THEN 6 ELSE 10)
    * (IF envParams.fans_on THEN 11 ELSE 10)
    * (IF envParams.computers_count > 0 THEN 20 + envParams.computers_count
       ELSE 20)

\* baseEnergy * energyMultiplier * (0.8 + Math.random() * 0.4) in hundredths of
\* a kW, as a quotient: baseEnergy / 10 * energyMultiplier /
\* (MultiplierUnit * capacity) * (200 + rNoise) / 250 * 100
energyOf(baseEnergy, energyMultiplier, rNoise, roomCapacity) ==
  LET k == baseEnergy * (200 + rNoise)
      g == GCD(k, MultiplierUnit * 25)
  IN [num |-> energyMultiplier * (k \div g),
      den |-> ((MultiplierUnit * 25) \div g) * roomCapacity]

\* occupancyPct > 70 ? 'high' : occupancyPct > 30 ? 'medium' : 'low'
occupancyLevelOf(occupancyPct) ==
  IF occupancyPct.num > 70 * occupancyPct.den THEN "high"
  ELSE IF occupancyPct.num > 30 * occupancyPct.den THEN "medium"
  ELSE "low"

\* Math.min(avgOccupancy + Math.floor(Math.random() * 10 - 5), capacity)
occupancyOf(avgOccupancy, rDelta, roomCapacity) ==
  Min(avgOccupancy + ((rDelta * 10) \div 100 - 5), roomCapacity)

\* generateMockRoomData; d holds the hour of the clock, the values of the
\* Math.random() calls for capacity, avgOccupancy, occupancy and energy, and
\* the side of a tie of energy.toFixed(2).
\* Of the record it returns the fields the rollups and the bands read are kept.
generateMockRoomData(buildingId, envParams, d) ==
  LET occupancyFactor == getTimeBasedOccupancy(d.hour)
      roomCapacity == (d.rCapacity * 40) \div 100 + 20
      avgOccupancy ==
        IF envParams.avg_occupancy # 0
          THEN envParams.avg_occupancy
          ELSE (roomCapacity * occupancyFactor * (100 + d.rAvg)) \div 2000
      occupancy == occupancyOf(avgOccupancy, d.rDelta, roomCapacity)
      occupancyPct == PercentageOf(occupancy, roomCapacity)
      energyMultiplier == energyMultiplierOf(envParams, occupancy, roomCapacity)
      energy == energyOf(baseEnergyOf(buildingId), energyMultiplier, d.rNoise,
                         roomCapacity)
  IN [current_occupancy |-> occupancy,
      capacity |-> roomCapacity,
      occupancy_level |-> occupancyLevelOf(occupancyPct),
      estimated_energy_kw |-> ToFixedUnits(energy, 1, d.tieUp)]

\* A reduce that returns the field of the first object only
SumFieldFirstOnly(objs, field) ==
  IF objs = <<>> THEN 0 ELSE objs[1][field]

\* Object.values(objs).reduce((sum, o) => sum + o[field], 0), left to right
RECURSIVE SumField(_, _)
SumField(objs, field) ==
  IF objs = <<>> THEN 0
  ELSE SumField(SubSeq(objs, 1, Len(objs) - 1), field) + objs[Len(objs)][field]

\* The rollup of generateMockBuildingData over a building's only first room
rollupOfFirstRoom(buildingId, numRooms, rooms, tieUp) ==
  LET totalOccupancy == IF rooms = <<>> THEN 0 ELSE rooms[1].current_occupancy
      totalCapacity == IF rooms = <<>> THEN 0 ELSE rooms[1].capacity
      occupancyRate ==
        IF totalCapacity > 0 THEN Quot(totalOccupancy * 100, totalCapacity)
        ELSE Quot(0, 1)
  IN [building_id |-> buildingId,
      total_rooms |-> numRooms,
      total_energy_kw |-> SumField(rooms, "estimated_energy_kw"),
      total_occupancy |-> totalOccupancy,
      total_capacity |-> totalCapacity,
      occupancy_rate |-> ToFixedUnits(occupancyRate, 10, tieUp),
      room_states |-> rooms]

\* The rollup of generateMockBuildingData: the totals over Object.values(rooms),
\* occupancyRate and the record it returns
rollupOf(buildingId, numRooms, rooms, tieUp) ==
  LET totalEnergy == SumField(rooms, "estimated_energy_kw")
      totalOccupancy == SumField(rooms, "current_occupancy")
      totalCapacity == SumField(rooms, "capacity")
      occupancyRate ==
        IF totalCapacity > 0 THEN Quot(totalOccupancy * 100, totalCapacity)
        ELSE Quot(0, 1)
  IN [building_id |-> buildingId,
      total_rooms |-> numRooms,
      total_energy_kw |-> totalEnergy,
      total_occupancy |-> totalOccupancy,
      total_capacity |-> totalCapacity,
      occupancy_rate |-> ToFixedUnits(occupancyRate, 10, tieUp),
      room_states |-> rooms]

\* The filter of criticalBuildings, in kW
CriticalEnergyKw == 50

\* b => b.total_energy_kw > 50
IsHighEnergy(b) == b.total_energy_kw > CriticalEnergyKw * 100

\* One entry of critical_buildings
criticalEntryOf(b) ==
  [building_id |-> b.building_id,
   energy_kw |-> b.total_energy_kw,
   occupancy_rate |-> b.occupancy_rate,
   reason |-> "High energy consumption"]

\* The rollup of generateMockCampusAnalysis over Object.values(buildings) and
\* the object it returns
campusAnalysisOf(buildings, tieUp) ==
  LET totalEnergy == SumField(buildings, "total_energy_kw")
      totalOccupancy == SumField(buildings, "total_occupancy")
      totalCapacity == SumField(buildings, "total_capacity")
      avgOccupancyRate ==
        Quot(SumField(buildings, "occupancy_rate"), 10 * Len(buildingIds))
      high == SelectSeq(buildings, IsHighEnergy)
  IN [kind |-> "analysis",
      campus_metrics |->
        [total_energy_kw |-> totalEnergy,
         total_occupancy |-> totalOccupancy,
         total_capacity |-> totalCapacity,
         total_buildings |-> Len(buildingIds),
         total_rooms |-> SumField(buildings, "total_rooms"),
         occupancy_rate |-> ToFixedUnits(avgOccupancyRate, 10, tieUp),
         avg_occupancy_rate |-> ToFixedUnits(avgOccupancyRate, 10, tieUp)],
      building_states |-> buildings,
      critical_buildings |-> [i \in 1..Len(high) |-> criticalEntryOf(high[i])]]

NoAnalysis == [kind |-> "none"]

\* Values of envParams
MockEnvs ==
  [avg_occupancy : {0, 3, 10, 60},
   lights_on : BOOLEAN,
   ac_on : BOOLEAN,
   fans_on : BOOLEAN,
   computers_count : {0, 20}]

\* Values of envParams of a campus analysis
CampusEnvs ==
  {e \in MockEnvs : /\ e.avg_occupancy \in {10, 60}
                    /\ e.lights_on
                    /\ e.ac_on
                    /\ e.fans_on
                    /\ e.computers_count = 20}

\* The clock and the Math.random() values of one generateMockRoomData call
RoomDraws ==
  [hour : {3, 12, 20},
   rCapacity : {0, 75},
   rAvg : {0, 50},
   rDelta : {0, 10, 50, 90},
   rNoise : {0, 50},
   tieUp : BOOLEAN]

\* The draws of the rooms of a campus analysis
CampusRoomDraws ==
  {d \in RoomDraws : /\ d.hour = 12
                     /\ d.rAvg = 0
                     /\ d.rDelta = 50
                     /\ d.rNoise = 50}

\* numRooms of a building, scaled down from the code's 8..15
MockRoomCounts == 1..MaxMockRooms

MockIdle ==
  /\ mockEnv = DefaultEnv
  /\ mockBuildingIdx = 0
  /\ mockNumRooms = 0
  /\ mockRooms = <<>>
  /\ mockMultiplier = 0
  /\ mockBuildings = <<>>
  /\ mockCampus = NoAnalysis

\* A step of the generator touches no other component.
MockFrame == UNCHANGED <<recVars, cfgVars, camVars, rapVars, frVars, simVars,
                         pgVars, chatVars, scopeVars, xlVars>>

\* generateMockRoomData(roomId, buildingId, envParams) called on its own
MockRoomCall(buildingId, envParams, d) ==
  /\ LET room == generateMockRoomData(buildingId, envParams, d)
     IN /\ mockRooms' = <<room>>
        /\ mockMultiplier' =
             energyMultiplierOf(envParams, room.current_occupancy, room.capacity)
  /\ mockEnv' = envParams
  /\ UNCHANGED <<mockBuildingIdx, mockNumRooms, mockBuildings, mockCampus>>

\* One call of generateMockRoomData with any building, envParams and draws
CallGenerateMockRoomData ==
  /\ mockBuildingIdx = 0
  /\ mockRooms = <<>>
  /\ MockFrame
  /\ \E i \in 1..Len(buildingIds), envParams \in MockEnvs, d \in RoomDraws :
       MockRoomCall(buildingIds[i], envParams, d)

\* generateMockCampusAnalysis is called: buildings = {}
StartCampusAnalysis(envParams) ==
  /\ MockFrame
  /\ mockBuildingIdx = 0
  /\ mockRooms = <<>>
  /\ mockEnv' = envParams
  /\ mockBuildingIdx' = 1
  /\ UNCHANGED <<mockNumRooms, mockRooms, mockMultiplier, mockBuildings,
                 mockCampus>>

\* generateMockBuildingData is called for the next id: numRooms is drawn
BeginBuilding(numRooms) ==
  /\ MockFrame
  /\ mockBuildingIdx \in 1..Len(buildingIds)
  /\ mockNumRooms = 0
  /\ mockNumRooms' = numRooms
  /\ mockRooms' = <<>>
  /\ UNCHANGED <<mockEnv, mockBuildingIdx, mockMultiplier, mockBuildings,
                 mockCampus>>

\* One turn of the loop of generateMockBuildingData
GenerateRoom(d) ==
  /\ MockFrame
  /\ mockNumRooms > 0
  /\ Len(mockRooms) < mockNumRooms
  /\ LET room == generateMockRoomData(buildingIds[mockBuildingIdx], mockEnv, d)
     IN /\ mockRooms' = Append(mockRooms, room)
        /\ mockMultiplier' =
             energyMultiplierOf(mockEnv, room.current_occupancy, room.capacity)
  /\ UNCHANGED <<mockEnv, mockBuildingIdx, mockNumRooms, mockBuildings,
                 mockCampus>>

\* generateMockBuildingData returns its rollup; forEach goes to the next id
FinishBuilding(tieUp) ==
  /\ MockFrame
  /\ mockNumRooms > 0
  /\ Len(mockRooms) = mockNumRooms
  /\ mockBuildings' =
       Append(mockBuildings,
              rollupOf(buildingIds[mockBuildingIdx], mockNumRooms, mockRooms,
                       tieUp))
  /\ mockBuildingIdx' = mockBuildingIdx + 1
  /\ mockNumRooms' = 0
  /\ mockRooms' = <<>>
  /\ UNCHANGED <<mockEnv, mockMultiplier, mockCampus>>

\* generateMockCampusAnalysis returns
FinishCampus(tieUp) ==
  /\ MockFrame
  /\ mockBuildingIdx = Len(buildingIds) + 1
  /\ mockCampus = NoAnalysis
  /\ mockCampus' = campusAnalysisOf(mockBuildings, tieUp)
  /\ UNCHANGED <<mockEnv, mockBuildingIdx, mockNumRooms, mockRooms,
                 mockMultiplier, mockBuildings>>

-----------------------------------------------------------------------------
(***************************************************************************)
(* Recommendation filters of RecommendationPanel, BuildingCard and         *)
(* RoomAnalysisDetail                                                      *)
(*                                                                         *)
(* A recommendation is its text together with what the filters read of it: *)
(* trimmedLength is rec.trim().length, phrases the phrases of the filters  *)
(* that rec.toLowerCase() includes.                                        *)
(***************************************************************************)
Recommendations ==
  {[text |-> "Fans off", trimmedLength |-> 8, phrases |-> {}],
   [text |-> "Dim lights", trimmedLength |-> 10, phrases |-> {}],
   [text |-> "  Dim lights.  ", trimmedLength |-> 11, phrases |-> {}],
   [text |-> "No immediate actions needed", trimmedLength |-> 27,
    phrases |-> {"no immediate actions", "no immediate"}],
   [text |-> "Room operating efficiently", trimmedLength |-> 26,
    phrases |-> {"operating efficiently"}],
   [text |-> "Monitor temperature closely", trimmedLength |-> 27,
    phrases |-> {"monitor"}]}

\* rec.toLowerCase().includes(phrase)
Includes(rec, phrase) == phrase \in rec.phrases

\* s.slice(0, n)
Slice(s, n) == SubSeq(s, 1, Min(n, Len(s)))

\* The filter of RecommendationPanel
PanelKeeps(rec) ==
  /\ ~Includes(rec, "no immediate actions")
  /\ ~Includes(rec, "operating efficiently")
  /\ ~Includes(rec, "monitor")
  /\ rec.trimmedLength > 10

\* The filter of BuildingCard and of RoomAnalysisDetail
CardKeeps(rec) ==
  /\ ~Includes(rec, "no immediate")
  /\ ~Includes(rec, "operating efficiently")
  /\ rec.trimmedLength > 10

\* filteredRecs of RecommendationPanel; nothing is shown when it is empty
PanelShown(recommendations) == Slice(SelectSeq(recommendations, PanelKeeps), 5)

\* The list items of BuildingCard
BuildingCardShown(recommendations) ==
  Slice(SelectSeq(recommendations, CardKeeps), 2)

\* The recommendation items of RoomAnalysisDetail
RoomDetailShown(recommendations) == SelectSeq(recommendations, CardKeeps)

RECURSIVE SeqsUpTo(_, _)
SeqsUpTo(S, n) ==
  IF n = 0 THEN {<<>>}
  ELSE LET shorter == SeqsUpTo(S, n - 1)
       IN shorter \cup {Append(s, x) : s \in shorter, x \in S}

FrIdle ==
  /\ frComponent = "none"
  /\ frRecommendations = <<>>
  /\ frShown = <<>>

\* A render of a filter touches no other component.
FrFrame == UNCHANGED <<recVars, cfgVars, camVars, rapVars, mockVars, simVars,
                       pgVars, chatVars, scopeVars, xlVars>>

RenderRecommendationPanel(recommendations) ==
  /\ FrFrame
  /\ frComponent' = "RecommendationPanel"
  /\ frRecommendations' = recommendations
  /\ frShown' = PanelShown(recommendations)

RenderBuildingCard(recommendations) ==
  /\ FrFrame
  /\ frComponent' = "BuildingCard"
  /\ frRecommendations' = recommendations
  /\ frShown' = BuildingCardShown(recommendations)

RenderRoomAnalysisDetail(recommendations) ==
  /\ FrFrame
  /\ frComponent' = "RoomAnalysisDetail"
  /\ frRecommendations' = recommendations
  /\ frShown' = RoomDetailShown(recommendations)

-----------------------------------------------------------------------------
(***************************************************************************)
(* RoomState store and Simulation Engine (design section 4.1 and 4.6)      *)
(***************************************************************************)
SimRoomIds == {"sci-101", "lib-101"}

\* building_id of a room id of the format {building}-{number}
BuildingOfRoom(room_id) == IF room_id = "sci-101" THEN "sci" ELSE "lib"

\* The state get(room_id) creates: no occupants, all equipment off
DefaultRoomState == [current_occupancy |-> 0, ac_on |-> FALSE]

NoSimulation == [kind |-> "none"]

\* An override of a simulation: AC forced off in a building, or the building
\* closed (current_occupancy forced to 0)
Overrides ==
  [kind : {"ac_off", "close"}, building_id : {"sci", "lib"}]

\* The override applied to the RoomState subset it is about
ApplyOverride(store, override) ==
  [id \in DOMAIN store |->
     IF BuildingOfRoom(id) # override.building_id THEN store[id]
     ELSE IF override.kind = "ac_off" THEN [store[id] EXCEPT !.ac_on = FALSE]
     ELSE [store[id] EXCEPT !.current_occupancy = 0]]

RECURSIVE TotalOccupancy(_, _)
TotalOccupancy(store, ids) ==
  IF ids = {} THEN 0
  ELSE LET id == CHOOSE x \in ids : TRUE
       IN store[id].current_occupancy + TotalOccupancy(store, ids \ {id})

\* The pipeline over a snapshot of the store, reduced to campus totals
Analyse(store) ==
  [total_occupancy |-> TotalOccupancy(store, DOMAIN store),
   rooms_with_ac |-> Cardinality({id \in DOMAIN store : store[id].ac_on})]

SimIdle ==
  /\ roomStore = [id \in SimRoomIds |-> DefaultRoomState]
  /\ simResult = NoSimulation
  /\ simRuns = 0
  /\ simWrites = 0

\* A step of the engine or the store touches no other component.
SimFrame == UNCHANGED <<recVars, cfgVars, camVars, rapVars, mockVars, frVars,
                        pgVars, chatVars, scopeVars, xlVars>>

\* update_occupancy(room_id, count): count is clamped to >= 0
update_occupancy(room_id, count) ==
  /\ SimFrame
  /\ simWrites < MaxStoreWrites
  /\ simWrites' = simWrites + 1
  /\ roomStore' =
       [roomStore EXCEPT ![room_id].current_occupancy =
          IF count < 0 THEN 0 ELSE count]
  /\ UNCHANGED <<simResult, simRuns>>

\* User-supplied configuration of a room's AC
SetAcOn(room_id, on) ==
  /\ SimFrame
  /\ simWrites < MaxStoreWrites
  /\ simWrites' = simWrites + 1
  /\ roomStore' = [roomStore EXCEPT ![room_id].ac_on = on]
  /\ UNCHANGED <<simResult, simRuns>>

\* A simulation run that applies the override to the store itself
RunSimulationInPlace(override) ==
  /\ SimFrame
  /\ simRuns < MaxSimRuns
  /\ simRuns' = simRuns + 1
  /\ roomStore' = ApplyOverride(roomStore, override)
  /\ simResult' =
       [kind |-> "simulation",
        override |-> override,
        baseline |-> Analyse(roomStore),
        simulated |-> Analyse(ApplyOverride(roomStore, override))]
  /\ UNCHANGED simWrites

\* A simulation run: the pipeline over the store, and over a transient copy
\* with the override applied
RunSimulation(override) ==
  /\ SimFrame
  /\ simRuns < MaxSimRuns
  /\ simRuns' = simRuns + 1
  /\ LET copy == ApplyOverride(roomStore, override)
     IN simResult' =
          [kind |-> "simulation",
           override |-> override,
           baseline |-> Analyse(roomStore),
           simulated |-> Analyse(copy)]
  /\ UNCHANGED <<roomStore, simWrites>>

-----------------------------------------------------------------------------
(***************************************************************************)
(* Simulation page (Simulation.jsx) and the SimulationResult the backend   *)
(* answers with (design section 3 and 4.6)                                 *)
(***************************************************************************)
\* The fixed adoption threshold, in percent
AdoptionThreshold == 10

\* Percentage delta of a metric: (baseline - simulated) / baseline * 100
savingsPctOf(baselineKw, simulatedKw) ==
  Quot((baselineKw - simulatedKw) * 100, baselineKw)

\* The recommendation with the threshold itself counted as reached
recommendationOfInclusive(savings_pct) ==
  IF savings_pct.num >= AdoptionThreshold * savings_pct.den
  THEN "Implement" ELSE "Needs Review"

\* recommendation of a SimulationResult: Implement iff the savings percentage
\* exceeds the adoption threshold
recommendationOf(savings_pct) ==
  IF savings_pct.num > AdoptionThreshold * savings_pct.den
  THEN "Implement" ELSE "Needs Review"

\* The SimulationResult of a baseline and a simulated campus energy
SimulationResultOf(baselineKw, simulatedKw) ==
  [baseline |-> [total_energy_kw |-> baselineKw],
   simulated |-> [total_energy_kw |-> simulatedKw],
   comparison |->
     [energy_savings_kw |-> baselineKw - simulatedKw,
      energy_savings_pct |-> savingsPctOf(baselineKw, simulatedKw)],
   recommendation |-> recommendationOf(savingsPctOf(baselineKw, simulatedKw))]

\* Campus energies of the responses, in kW
BaselineKws == {100, 200}

SimulatedKws == {65, 89, 90, 180}

SimulationResults ==
  {SimulationResultOf(b, s) : b \in BaselineKws, s \in SimulatedKws}

NoResult == [recommendation |-> "null"]

NoTemplate == [id |-> "null", building_id |-> "null"]

NoRequest == [kind |-> "none"]

\* The templates simulationAPI.getTemplates answers with; one names no building
SimulationTemplates ==
  {[id |-> "close_building", building_id |-> "sci"],
   [id |-> "reduce_hvac", building_id |-> "undefined"]}

\* min and max of the sliders, and the states' initial values
SliderMinRooms == 5

SliderMaxRooms == 50

SliderMinBuildings == 1

SliderMaxBuildings == 5

DefaultNumRooms == 10

DefaultNumBuildings == 2

PageBudgetLevels == {"low", "medium", "high"}

\* A range input that hands on the position asked for as it is
RangeInputValueUnclamped(raw, lo, hi) == raw

\* e.target.value of a range input, parsed: the position asked for, kept
\* within min and max by the input element
RangeInputValue(raw, lo, hi) ==
  IF raw < lo THEN lo ELSE IF raw > hi THEN hi ELSE raw

\* Positions the user drags the sliders to
RoomsPositions ==
  {SliderMinRooms - 1, SliderMinRooms, SliderMaxRooms, SliderMaxRooms + 1}

BuildingsPositions ==
  {SliderMinBuildings - 1, SliderMinBuildings, SliderMaxBuildings,
   SliderMaxBuildings + 1}

\* The scenario runSimulation builds from the states of the render it was
\* created in
ScenarioOf(template, custom, nRooms, nBuildings, level) ==
  [type |-> template.id,
   building_id |->
     IF template.building_id = "undefined" THEN "lib"
     ELSE template.building_id,
   parameters |->
     IF custom
     THEN [empty |-> FALSE, num_rooms |-> nRooms,
           num_buildings |-> nBuildings, budget_level |-> level]
     ELSE [empty |-> TRUE]]

\* disabled={loading} of the Run Simulation buttons
RunButtonEnabled(isLoading) == ~isLoading

PgIdle ==
  /\ templates = {}
  /\ templatesPending = TRUE
  /\ selectedTemplate = NoTemplate
  /\ pgResult = NoResult
  /\ pgLoading = FALSE
  /\ agentProgress = ""
  /\ pgNumRooms = DefaultNumRooms
  /\ pgNumBuildings = DefaultNumBuildings
  /\ pgBudgetLevel = "low"
  /\ useCustomSettings = TRUE
  /\ pgRuns = {}
  /\ pgStarted = 0
  /\ pgEdits = 0
  /\ pgSent = NoRequest

\* A step of the page touches no other component.
PgFrame ==
  UNCHANGED <<recVars, cfgVars, camVars, rapVars, mockVars, frVars,
                         simVars, chatVars, scopeVars, xlVars>>

pgControls == <<pgNumRooms, pgNumBuildings, pgBudgetLevel, useCustomSettings>>

pgRunState == <<selectedTemplate, pgResult, pgLoading, agentProgress, pgRuns,
                pgStarted, pgSent>>

\* loadTemplates: the request of the mount effect resolves
LoadTemplatesResolves ==
  /\ templatesPending
  /\ PgFrame
  /\ templatesPending' = FALSE
  /\ templates' = SimulationTemplates
  /\ UNCHANGED <<pgControls, pgRunState, pgEdits>>

\* loadTemplates: the request fails, the error is logged
LoadTemplatesRejects ==
  /\ templatesPending
  /\ PgFrame
  /\ templatesPending' = FALSE
  /\ UNCHANGED <<templates, pgControls, pgRunState, pgEdits>>

SetNumRooms(raw) ==
  /\ pgEdits < MaxPageEdits
  /\ PgFrame
  /\ pgEdits' = pgEdits + 1
  /\ pgNumRooms' = RangeInputValue(raw, SliderMinRooms, SliderMaxRooms)
  /\ UNCHANGED <<templates, templatesPending, pgNumBuildings, pgBudgetLevel,
                 useCustomSettings, pgRunState>>

SetNumBuildings(raw) ==
  /\ pgEdits < MaxPageEdits
  /\ PgFrame
  /\ pgEdits' = pgEdits + 1
  /\ pgNumBuildings' =
       RangeInputValue(raw, SliderMinBuildings, SliderMaxBuildings)
  /\ UNCHANGED <<templates, templatesPending, pgNumRooms, pgBudgetLevel,
                 useCustomSettings, pgRunState>>

SetBudgetLevel(level) ==
  /\ pgEdits < MaxPageEdits
  /\ PgFrame
  /\ pgEdits' = pgEdits + 1
  /\ pgBudgetLevel' = level
  /\ UNCHANGED <<templates, templatesPending, pgNumRooms, pgNumBuildings,
                 useCustomSettings, pgRunState>>

SetUseCustomSettings(checked) ==
  /\ pgEdits < MaxPageEdits
  /\ PgFrame
  /\ pgEdits' = pgEdits + 1
  /\ useCustomSettings' = checked
  /\ UNCHANGED <<templates, templatesPending, pgNumRooms, pgNumBuildings,
                 pgBudgetLevel, pgRunState>>

\* runSimulation(template) up to its first await: the click on an enabled Run
\* Simulation button
RunSimulationClick(template) ==
  /\ template \in templates
  /\ RunButtonEnabled(pgLoading)
  /\ pgStarted < MaxPageRuns
  /\ PgFrame
  /\ pgStarted' = pgStarted + 1
  /\ pgLoading' = TRUE
  /\ selectedTemplate' = template
  /\ pgResult' = NoResult
  /\ agentProgress' = "Running room agents..."
  /\ pgRuns' = pgRuns \cup
       {[id |-> pgStarted + 1,
         at |-> "delay800",
         custom |-> useCustomSettings,
         scenario |-> ScenarioOf(template, useCustomSettings, pgNumRooms,
                                 pgNumBuildings, pgBudgetLevel),
         data |-> NoResult]}
  /\ UNCHANGED <<templates, templatesPending, pgControls, pgEdits, pgSent>>

\* The 800 ms delay is over: simulationAPI.run(scenario) is called
SendRun(run) ==
  /\ run.at = "delay800"
  /\ PgFrame
  /\ agentProgress' = "Aggregating building data..."
  /\ pgRuns' = (pgRuns \ {run}) \cup {[run EXCEPT !.at = "request"]}
  /\ pgSent' = [kind |-> "request",
                scenario |-> run.scenario,
                custom |-> run.custom,
                duringRun |-> \E other \in pgRuns : other.id # run.id]
  /\ UNCHANGED <<templates, templatesPending, pgControls, pgEdits,
                 selectedTemplate, pgResult, pgLoading, pgStarted>>

\* The request resolves with the backend's SimulationResult
RunResolves(run, data) ==
  /\ run.at = "request"
  /\ PgFrame
  /\ agentProgress' = "Generating campus insights..."
  /\ pgRuns' = (pgRuns \ {run}) \cup
                 {[run EXCEPT !.at = "delay500", !.data = data]}
  /\ UNCHANGED <<templates, templatesPending, pgControls, pgEdits,
                 selectedTemplate, pgResult, pgLoading, pgStarted, pgSent>>

\* The request is rejected: catch, then finally starts the 1 s timer
RunRejects(run) ==
  /\ run.at = "request"
  /\ PgFrame
  /\ agentProgress' = "Error occurred"
  /\ pgRuns' = (pgRuns \ {run}) \cup {[run EXCEPT !.at = "timer"]}
  /\ UNCHANGED <<templates, templatesPending, pgControls, pgEdits,
                 selectedTemplate, pgResult, pgLoading, pgStarted, pgSent>>

\* The 500 ms delay is over: setResult, then finally starts the 1 s timer
ShowResult(run) ==
  /\ run.at = "delay500"
  /\ PgFrame
  /\ pgResult' = run.data
  /\ agentProgress' = "Complete!"
  /\ pgRuns' = (pgRuns \ {run}) \cup {[run EXCEPT !.at = "timer"]}
  /\ UNCHANGED <<templates, templatesPending, pgControls, pgEdits,
                 selectedTemplate, pgLoading, pgStarted, pgSent>>

\* The timer of finally fires
LoadingTimer(run) ==
  /\ run.at = "timer"
  /\ PgFrame
  /\ pgLoading' = FALSE
  /\ agentProgress' = ""
  /\ pgRuns' = pgRuns \ {run}
  /\ UNCHANGED <<templates, templatesPending, pgControls, pgEdits,
                 selectedTemplate, pgResult, pgStarted, pgSent>>

\* The results section is rendered
ResultsShown == pgResult # NoResult /\ ~pgLoading

\* The block the recommendation box renders for a result
RecommendationBox(res) ==
  IF res.recommendation = "Implement" THEN "rec-success" ELSE "rec-review"

-----------------------------------------------------------------------------
(***************************************************************************)
(* ChatPanel: sendMessage, clearChat and the chat requests in flight.  The *)
(* panel is taken as open.                                                 *)
(***************************************************************************)
\* Texts typed into the input box
InputTexts == {"", "  ", " hi ", "why"}

\* The suggested questions of the welcome block
Suggestions == {"Explain the savings potential"}

\* text.trim()
TrimInput(text) ==
  CASE text = "  " -> ""
    [] text = " hi " -> "hi"
    [] OTHER -> text

ChatErrorMessage ==
  [role |-> "assistant", content |-> "Sorry, I encountered an error."]

\* A guard of sendMessage that looks at the input only
SendEnabledIgnoringLoading(text, isLoading) == TrimInput(text) # ""

\* The condition under which sendMessage goes on (and the send button is
\* enabled): !(!input.trim() || loading)
SendEnabled(text, isLoading) == TrimInput(text) # "" /\ ~isLoading

\* data.chat_history of an ok response: the history the request held, with
\* the assistant's answer
ReplyHistory(request) ==
  Append(request.newMessages, [role |-> "assistant", content |-> "answer"])

ChatIdle ==
  /\ messages = <<>>
  /\ input = ""
  /\ chatLoading = FALSE
  /\ chatPending = {}
  /\ chatSends = 0
  /\ chatCleared = FALSE

\* A step of the panel touches no other component.
ChatFrame ==
  UNCHANGED <<recVars, cfgVars, camVars, rapVars, mockVars,
                           frVars, simVars, pgVars, scopeVars, xlVars>>

\* The textarea, disabled while loading
SetInput(text) ==
  /\ ~chatLoading
  /\ ChatFrame
  /\ input' = text
  /\ UNCHANGED <<messages, chatLoading, chatPending, chatSends, chatCleared>>

\* A suggested question of the welcome block, shown while the list is empty
ClickSuggestion(text) ==
  /\ messages = <<>>
  /\ ChatFrame
  /\ input' = text
  /\ UNCHANGED <<messages, chatLoading, chatPending, chatSends, chatCleared>>

\* sendMessage up to its await: the send button or the Enter key
SendMessage ==
  /\ SendEnabled(input, chatLoading)
  /\ chatSends < MaxChatSends
  /\ ChatFrame
  /\ LET userMessage == TrimInput(input)
         newMessages ==
           Append(messages, [role |-> "user", content |-> userMessage])
     IN /\ input' = ""
        /\ chatLoading' = TRUE
        /\ messages' = newMessages
        /\ chatPending' = chatPending \cup
             {[id |-> chatSends + 1, message |-> userMessage,
               chat_history |-> messages, newMessages |-> newMessages]}
  /\ chatSends' = chatSends + 1
  /\ chatCleared' = FALSE

\* sendMessage after the await: the response is ok
ChatResolves(request) ==
  /\ request \in chatPending
  /\ ChatFrame
  /\ messages' = ReplyHistory(request)
  /\ chatLoading' = FALSE
  /\ chatPending' = chatPending \ {request}
  /\ UNCHANGED <<input, chatSends, chatCleared>>

\* sendMessage after the await: the request failed or the response is not ok
ChatRejects(request) ==
  /\ request \in chatPending
  /\ ChatFrame
  /\ messages' = Append(request.newMessages, ChatErrorMessage)
  /\ chatLoading' = FALSE
  /\ chatPending' = chatPending \ {request}
  /\ UNCHANGED <<input, chatSends, chatCleared>>

\* clearChat: the bin button of the header
ClearChat ==
  /\ ChatFrame
  /\ messages' = <<>>
  /\ chatCleared' = TRUE
  /\ UNCHANGED <<input, chatLoading, chatPending, chatSends>>

-----------------------------------------------------------------------------
(***************************************************************************)
(* RoomConfigPanel: the scope effect that initialises and reconciles       *)
(* roomConfigs when numRooms or numBuildings change.  The earlier version  *)
(* of the panel spreads numRooms over the buildings, the later one gives   *)
(* every building numRooms rooms.                                          *)
(***************************************************************************)
ScopeVersions == {"earlier", "later"}

\* `b${b}-r${r}`
RoomIdOf(b, r) == "b" \o ToString(b) \o "-r" \o ToString(r)

\* Math.ceil(n / d) for n >= 0, d > 0
CeilDiv(n, d) == (n + d - 1) \div d

\* A distribution that gives every building the same share of all rooms
roomCountOfEven(nRooms, nBuildings, b, roomsAllocated) ==
  CeilDiv(nRooms, nBuildings)

\* count of building b in the earlier version: remaining rooms over remaining
\* buildings, rounded up
roomCountOf(nRooms, nBuildings, b, roomsAllocated) ==
  LET remainingBuildings == nBuildings - (b - 1)
      remainingRooms == nRooms - roomsAllocated
  IN CeilDiv(remainingRooms, remainingBuildings)

\* The rooms r = 1..count of building b
RoomsOfBuilding(b, count) ==
  [r \in 1..count |-> [id |-> RoomIdOf(b, r), b |-> b, r |-> r]]

\* validRoomIds of the earlier version, from building b on
RECURSIVE DistributedFrom(_, _, _, _)
DistributedFrom(nRooms, nBuildings, b, roomsAllocated) ==
  IF b > nBuildings THEN <<>>
  ELSE LET count == roomCountOf(nRooms, nBuildings, b, roomsAllocated)
       IN RoomsOfBuilding(b, count) \o
            DistributedFrom(nRooms, nBuildings, b + 1, roomsAllocated + count)

\* validRoomIds of the later version, from building b on
RECURSIVE PerBuildingFrom(_, _, _)
PerBuildingFrom(nRooms, nBuildings, b) ==
  IF b > nBuildings THEN <<>>
  ELSE RoomsOfBuilding(b, nRooms) \o PerBuildingFrom(nRooms, nBuildings, b + 1)

validRoomIdsOf(version, nRooms, nBuildings) ==
  IF version = "earlier" THEN DistributedFrom(nRooms, nBuildings, 1, 0)
  ELSE PerBuildingFrom(nRooms, nBuildings, 1)

IdsOf(validRoomIds) == {validRoomIds[i].id : i \in 1..Len(validRoomIds)}

\* A reconciliation that initialises every valid room anew
ReconcileResets(prevConfigs, validRoomIds) ==
  [id \in IdsOf(validRoomIds) |-> NewRoomConfig]

\* The updater the effect passes to setRoomConfigs
Reconcile(prevConfigs, validRoomIds) ==
  LET nextConfigs ==
        [id \in IdsOf(validRoomIds) |->
           IF id \in DOMAIN prevConfigs THEN prevConfigs[id]
           ELSE NewRoomConfig]
      hasChanges ==
        \/ \E id \in IdsOf(validRoomIds) : id \notin DOMAIN prevConfigs
        \/ Cardinality(DOMAIN prevConfigs) # Len(validRoomIds)
  IN IF hasChanges THEN nextConfigs ELSE prevConfigs

\* The selection the effect leaves
FixedSelection(selected, validRoomIds) ==
  IF selected \in IdsOf(validRoomIds) THEN selected
  ELSE IF Len(validRoomIds) > 0 THEN validRoomIds[1].id
  ELSE NoRoom

\* The props of the mount, for which roomConfigs holds CfgRoomIds
MountNumRooms(version) == IF version = "earlier" THEN 2 ELSE 1

MountNumBuildings == Cardinality(CfgRoomIds)

ScopeIdleOf(version) ==
  /\ scopeVersion = version
  /\ scopeNumRooms = MountNumRooms(version)
  /\ scopeNumBuildings = MountNumBuildings
  /\ selectedRoomId = "b1-r1"
  /\ scopeRuns = 0
  /\ scopeEvent =
       [validRoomIds |->
          validRoomIdsOf(version, MountNumRooms(version), MountNumBuildings),
        keptModified |-> FALSE,
        added |-> TRUE,
        removed |-> FALSE,
        reselected |-> TRUE]

ScopeIdle == ScopeIdleOf("later")

\* A step of the scope effect touches the panel alone.
ScopeFrame ==
  UNCHANGED <<recVars, camVars, rapVars, mockVars, frVars,
                            simVars, pgVars, chatVars, xlVars>>

\* The parent passes new numRooms / numBuildings; the panel renders and the
\* scope effect runs.
ScopeChange(nRooms, nBuildings) ==
  /\ <<nRooms, nBuildings>> # <<scopeNumRooms, scopeNumBuildings>>
  /\ scopeRuns < MaxScopeRuns
  /\ ScopeFrame
  /\ scopeRuns' = scopeRuns + 1
  /\ scopeNumRooms' = nRooms
  /\ scopeNumBuildings' = nBuildings
  /\ LET validRoomIds == validRoomIdsOf(scopeVersion, nRooms, nBuildings)
     IN /\ roomConfigs' = Reconcile(roomConfigs, validRoomIds)
        /\ selectedRoomId' = FixedSelection(selectedRoomId, validRoomIds)
        /\ scopeEvent' =
             [validRoomIds |-> validRoomIds,
              keptModified |->
                \E id \in IdsOf(validRoomIds) \cap DOMAIN roomConfigs :
                  roomConfigs[id].isModified,
              added |-> IdsOf(validRoomIds) \ DOMAIN roomConfigs # {},
              removed |-> DOMAIN roomConfigs \ IdsOf(validRoomIds) # {},
              reselected |-> selectedRoomId \notin IdsOf(validRoomIds)]
  /\ UNCHANGED <<scopeVersion, detectingRoom, detectionPreviews,
                 detectionError, cfgPending, cfgCalls, cfgEdits,
                 cfgHadFailure, cfgEvent>>

\* A tab or the room dropdown: setSelectedRoomId(room.id)
SelectRoom(id) ==
  /\ id \in DOMAIN roomConfigs
  /\ id # selectedRoomId
  /\ ScopeFrame
  /\ selectedRoomId' = id
  /\ UNCHANGED <<cfgVars, scopeVersion, scopeNumRooms, scopeNumBuildings,
                 scopeRuns, scopeEvent>>

-----------------------------------------------------------------------------
(***************************************************************************)
(* ExcelUpload: handleFileUpload and the parse of the sheet's rows.  A row *)
(* is given by the cells of the columns the header names (or the default   *)
(* columns): Department, Building, Room Name, Room ID, Number of Rooms,    *)
(* Capacity per Room.                                                      *)
(***************************************************************************)
NoFile == [extension |-> "none", header |-> FALSE, rows |-> <<>>]

NoData == [kind |-> "null"]

\* Data rows of the uploaded sheets; random is the room-xxxxx id Math.random
\* gives the row when its Room ID cell is empty
SheetRows ==
  {[dept |-> "Science", bldg |-> "Hall A", roomName |-> "Lab", roomId |-> "101",
    num |-> "", cap |-> "", random |-> "room-k3x9p"],
   [dept |-> "Arts", bldg |-> "hall a", roomName |-> "", roomId |-> "102",
    num |-> "1", cap |-> "3", random |-> "room-k3x9p"],
   [dept |-> "", bldg |-> "Lib", roomName |-> "", roomId |-> "",
    num |-> "2", cap |-> "40", random |-> "room-k3x9p"],
   [dept |-> "Arts", bldg |-> " Lib ", roomName |-> "Hall", roomId |-> "101",
    num |-> "0", cap |-> "40", random |-> "room-k3x9p"],
   [dept |-> "Arts", bldg |-> "", roomName |-> "Store", roomId |-> "103",
    num |-> "1", cap |-> "40", random |-> "room-k3x9p"]}

\* Sequences over S of length at most n
RECURSIVE RowSeqs(_, _)
RowSeqs(S, n) ==
  IF n = 0 THEN {<<>>}
  ELSE LET shorter == RowSeqs(S, n - 1)
       IN shorter \cup
            {Append(s, x) : s \in {q \in shorter : Len(q) = n - 1}, x \in S}

\* The files the user selects.  header says whether a header row naming the
\* default columns precedes the data rows; rows are the rows from startRow on.
SheetFiles ==
  [extension : {"xlsx"}, header : BOOLEAN, rows : RowSeqs(SheetRows, MaxSheetRows)]
    \cup {[extension |-> "txt", header |-> FALSE, rows |-> <<>>]}

\* selectedFile.name.match(/\.(xlsx|csv|xls)$/i)
ValidExtension(extension) == extension \in {"xlsx", "xls", "csv"}

\* String(cell).trim() of the Building cells
TrimCell(cell) == IF cell = " Lib " THEN "Lib" ELSE cell

\* bldg.toLowerCase().replace(/[^a-z0-9]/g, '-')
buildingIdOf(name) ==
  CASE name = "Hall A" -> "hall-a"
    [] name = "hall a" -> "hall-a"
    [] name = "Lib" -> "lib"
    [] OTHER -> name

\* parseInt(cell) || fallback
ParseIntOr(cell, fallback) ==
  CASE cell = "1" -> 1
    [] cell = "2" -> 2
    [] cell = "3" -> 3
    [] cell = "40" -> 40
    [] OTHER -> fallback

Max(a, b) == IF a > b THEN a ELSE b

\* The rooms one data row adds to roomsMap
RoomsOfRow(row, resolvedBldgId, roomCount) ==
  LET finalRoomName ==
        IF row.roomName # "" THEN row.roomName
        ELSE IF row.roomId # "" THEN row.roomId
        ELSE "Room " \o ToString(roomCount + 1)
      finalBaseRoomId == IF row.roomId # "" THEN row.roomId ELSE row.random
      safeCount == Max(1, ParseIntOr(row.num, 1))
      safeCapacity == Max(5, ParseIntOr(row.cap, 30))
      finalRoomId(c) ==
        IF safeCount > 1 THEN finalBaseRoomId \o "-" \o ToString(c)
        ELSE finalBaseRoomId
  IN [id \in {finalRoomId(c) : c \in 1..safeCount} |->
        [building_id |-> resolvedBldgId,
         room_number |-> id,
         capacity |-> safeCapacity,
         name |-> IF safeCount > 1
                  THEN finalRoomName \o " (" \o
                         ToString(CHOOSE c \in 1..safeCount : finalRoomId(c) = id)
                         \o ")"
                  ELSE finalRoomName]]

\* f with the entries of g added or replaced
Merged(f, g) ==
  [k \in DOMAIN f \cup DOMAIN g |-> IF k \in DOMAIN g THEN g[k] ELSE f[k]]

\* The loop over the data rows from row i on
RECURSIVE ParseRows(_, _, _, _, _)
ParseRows(rows, i, buildingsMap, roomsMap, roomCount) ==
  IF i > Len(rows)
  THEN [buildings |-> buildingsMap, rooms |-> roomsMap, roomCount |-> roomCount]
  ELSE LET row == rows[i]
           bldg == TrimCell(row.bldg)
       IN IF bldg = ""
          THEN ParseRows(rows, i + 1, buildingsMap, roomsMap, roomCount)
          ELSE LET withBldg ==
                     IF bldg \in DOMAIN buildingsMap THEN buildingsMap
                     ELSE Merged(buildingsMap,
                                 [n \in {bldg} |->
                                    [id |-> buildingIdOf(bldg),
                                     name |-> bldg,
                                     department |->
                                       IF row.dept = "" THEN "General"
                                       ELSE row.dept]])
                   added == RoomsOfRow(row, withBldg[bldg].id, roomCount)
               IN ParseRows(rows, i + 1, withBldg, Merged(roomsMap, added),
                            roomCount +
                              Max(1, ParseIntOr(row.num, 1)))

\* campusData of a sheet, or NoData when no building was found (the throw)
campusDataOf(file) ==
  LET parsed == ParseRows(file.rows, 1, [n \in {} |-> NoData],
                          [n \in {} |-> NoData], 0)
  IN IF DOMAIN parsed.buildings = {} THEN NoData
     ELSE [kind |-> "campus",
           total_area_sqm |-> parsed.roomCount * 60,
           buildings |-> parsed.buildings,
           rooms |-> parsed.rooms]

XlIdle ==
  /\ xlFile = NoFile
  /\ parsedData = NoData
  /\ xlError = NoError
  /\ xlReading = {}
  /\ xlUploads = 0

\* A step of the upload form touches no other component.
XlFrame ==
  UNCHANGED <<recVars, cfgVars, camVars, rapVars, mockVars, frVars, simVars,
              pgVars, chatVars, scopeVars>>

\* handleFileUpload: a file is selected; a valid one is handed to a FileReader
handleFileUpload(selectedFile) ==
  /\ xlUploads < MaxUploads
  /\ XlFrame
  /\ xlUploads' = xlUploads + 1
  /\ IF ~ValidExtension(selectedFile.extension)
       THEN /\ xlError' =
                 "Please upload a valid Excel (.xlsx, .xls) or CSV file"
            /\ UNCHANGED <<xlFile, parsedData, xlReading>>
       ELSE /\ xlFile' = selectedFile
            /\ xlError' = NoError
            /\ xlReading' = xlReading \cup
                 {[id |-> xlUploads + 1, file |-> selectedFile]}
            /\ UNCHANGED parsedData

\* reader.onload: the rows are parsed
ReaderLoaded(read) ==
  /\ read \in xlReading
  /\ XlFrame
  /\ xlReading' = xlReading \ {read}
  /\ IF campusDataOf(read.file) = NoData
       THEN /\ xlError' = "Error parsing the file. Please check the format."
            /\ UNCHANGED parsedData
       ELSE /\ parsedData' = campusDataOf(read.file)
            /\ UNCHANGED xlError
  /\ UNCHANGED <<xlFile, xlUploads>>

-----------------------------------------------------------------------------
(***************************************************************************)
(* Specifications, one per component                                       *)
(***************************************************************************)
\* Every component in the state its construction leaves it in
AllIdle ==
  /\ RecIdle
  /\ CfgIdle
  /\ CamIdle
  /\ RapIdle
  /\ MockIdle
  /\ FrIdle
  /\ SimIdle
  /\ PgIdle
  /\ ChatIdle
  /\ ScopeIdle
  /\ XlIdle

InitRec == AllIdle

NextRec ==
  \/ \E level \in BudgetLevels, nb \in 1..MaxBuildings, rp \in RoomCounts :
       \E crit \in SUBSET (1..nb) : StartRun(level, nb, rp, crit)
  \/ \E w \in Workers : WorkerCheck(w)
  \/ \E w \in Workers : WorkerTake(w)
  \/ \E w \in Workers : CallSuccess(w)
  \/ \E w \in Workers : CallFail(w)
  \/ \E w \in Workers : CallTimeout(w)
  \/ Finish
  \/ ReturnResponse

SpecRec == InitRec /\ [][NextRec]_vars

FairSpecRec == InitRec /\ [][NextRec]_vars /\ WF_vars(RecStep)

InitCfg == AllIdle

NextCfg ==
  \/ \E roomId \in CfgRoomIds, hasFile \in BOOLEAN :
       HandleImageDetect(roomId, hasFile)
  \/ \E p \in cfgPending, n \in 0..MaxPersonCount : ImageDetectSucceeds(p, n)
  \/ \E p \in cfgPending : ImageDetectFails(p)
  \/ \E roomId \in CfgRoomIds, key \in ConfigKeys :
       \E value \in ValuesOf(key) : HandleRoomChange(roomId, key, value)
  \/ \E roomId \in CfgRoomIds : ClearDetectionPreview(roomId)

SpecCfg == InitCfg /\ [][NextCfg]_vars

InitCam == AllIdle

NextCam ==
  \/ OpenModal
  \/ \E v \in CamRoomIds : SetRoomId(v)
  \/ StartAutoProcessingClick
  \/ CameraGranted
  \/ CameraDenied
  \/ IntervalTick
  \/ CaptureClick
  \/ \E result \in FrameResults, stale \in BOOLEAN : FrameResponse(result, stale)
  \/ \E stale \in BOOLEAN : FrameError(stale)
  \/ StopClick
  \/ CloseModal

SpecCam == InitCam /\ [][NextCam]_vars

InitRap ==
  /\ RecIdle
  /\ CfgIdle
  /\ CamIdle
  /\ RapInit
  /\ MockIdle
  /\ FrIdle
  /\ SimIdle
  /\ PgIdle
  /\ ChatIdle
  /\ ScopeIdle
  /\ XlIdle

NextRap ==
  \/ RenderRoom
  \/ \E key \in SortKeys : SetSortBy(key)
  \/ \E room \in RapRooms : SetRoom(room)

SpecRap == InitRap /\ [][NextRap]_vars

\* The room list of RoomAnalysisPage
InitRapList == AllIdle

NextRapList ==
  \/ \E allRooms \in DistinctSeqs(RoomCatalogue, MaxListRooms) :
       SetRooms(allRooms)
  \/ \E key \in SortKeys : SetSortBy(key)
  \/ \E query \in SearchQueries : SetSearchQuery(query)
  \/ \E type \in FilterTypes : SetFilterType(type)

SpecRapList == InitRapList /\ [][NextRapList]_vars

\* generateMockRoomData on its own
InitMockRoom == AllIdle

NextMockRoom == CallGenerateMockRoomData

SpecMockRoom == InitMockRoom /\ [][NextMockRoom]_vars

\* generateMockCampusAnalysis
InitMock == AllIdle

NextMock ==
  \/ \E envParams \in CampusEnvs : StartCampusAnalysis(envParams)
  \/ \E numRooms \in MockRoomCounts : BeginBuilding(numRooms)
  \/ \E d \in CampusRoomDraws : GenerateRoom(d)
  \/ \E tieUp \in BOOLEAN : FinishBuilding(tieUp)
  \/ \E tieUp \in BOOLEAN : FinishCampus(tieUp)

SpecMock == InitMock /\ [][NextMock]_vars

InitFr == AllIdle

NextFr ==
  \/ \E recommendations \in SeqsUpTo(Recommendations, MaxRecs) :
       RenderRecommendationPanel(recommendations)
  \/ \E recommendations \in SeqsUpTo(Recommendations, MaxRecs) :
       RenderBuildingCard(recommendations)
  \/ \E recommendations \in SeqsUpTo(Recommendations, MaxRecs) :
       RenderRoomAnalysisDetail(recommendations)

SpecFr == InitFr /\ [][NextFr]_vars

InitSim == AllIdle

NextSim ==
  \/ \E room_id \in SimRoomIds, count \in (0 - 1)..MaxStoreCount :
       update_occupancy(room_id, count)
  \/ \E room_id \in SimRoomIds, on \in BOOLEAN : SetAcOn(room_id, on)
  \/ \E override \in Overrides : RunSimulation(override)

SpecSim == InitSim /\ [][NextSim]_vars

InitPg == AllIdle

NextPg ==
  \/ LoadTemplatesResolves
  \/ LoadTemplatesRejects
  \/ \E raw \in RoomsPositions : SetNumRooms(raw)
  \/ \E raw \in BuildingsPositions : SetNumBuildings(raw)
  \/ \E level \in PageBudgetLevels : SetBudgetLevel(level)
  \/ \E checked \in BOOLEAN : SetUseCustomSettings(checked)
  \/ \E template \in SimulationTemplates : RunSimulationClick(template)
  \/ \E run \in pgRuns : SendRun(run)
  \/ \E run \in pgRuns, data \in SimulationResults : RunResolves(run, data)
  \/ \E run \in pgRuns : RunRejects(run)
  \/ \E run \in pgRuns : ShowResult(run)
  \/ \E run \in pgRuns : LoadingTimer(run)

SpecPg == InitPg /\ [][NextPg]_vars

InitChat == AllIdle

NextChat ==
  \/ \E text \in InputTexts : SetInput(text)
  \/ \E text \in Suggestions : ClickSuggestion(text)
  \/ SendMessage
  \/ \E request \in chatPending : ChatResolves(request)
  \/ \E request \in chatPending : ChatRejects(request)
  \/ ClearChat

SpecChat == InitChat /\ [][NextChat]_vars

\* The scope effect of RoomConfigPanel, in either version of the panel, with
\* edits of the selected room's lights
InitScope ==
  /\ RecIdle
  /\ CfgIdle
  /\ CamIdle
  /\ RapIdle
  /\ MockIdle
  /\ FrIdle
  /\ SimIdle
  /\ PgIdle
  /\ ChatIdle
  /\ XlIdle
  /\ \E version \in ScopeVersions : ScopeIdleOf(version)

NextScope ==
  \/ \E nRooms \in 0..MaxScopeRooms, nBuildings \in 0..MaxScopeBuildings :
       ScopeChange(nRooms, nBuildings)
  \/ \E id \in DOMAIN roomConfigs : SelectRoom(id)
  \/ \E value \in ValuesOf("lightsOn") :
       /\ selectedRoomId \in DOMAIN roomConfigs
       /\ cfgEdits < MaxScopeEdits
       /\ HandleRoomChange(selectedRoomId, "lightsOn", value)

SpecScope == InitScope /\ [][NextScope]_vars

InitXl == AllIdle

NextXl ==
  \/ \E selectedFile \in SheetFiles : handleFileUpload(selectedFile)
  \/ \E read \in xlReading : ReaderLoaded(read)

SpecXl == InitXl /\ [][NextXl]_vars

-----------------------------------------------------------------------------
(***************************************************************************)
(* Properties of the Budget-Gated Recommender                              *)
(***************************************************************************)
Range(f) == {f[i] : i \in DOMAIN f}

\* The priority class of an entity of the run; rooms of buildings that are not
\* critical are in no class.
Rank(e) ==
  CASE e.kind = "campus" -> 0
    [] e.kind = "building" /\ e.b \in critical -> 1
    [] e.kind = "building" /\ e.b \notin critical -> 2
    [] e.kind = "room" /\ e.b \in critical -> 3
    [] OTHER -> 4

Ranked == {e \in Entities : Rank(e) < 4}

\* C1: in a run with budget_level = low the number of external calls started
\* never exceeds the low-tier call count, whatever the number of rooms and
\* buildings.
C1_LowBudgetBound ==
  (phase \in {"running", "done"} /\ budget_level = "low")
    => callsStarted <= LowCalls /\ Len(attempted) <= LowCalls

C1_Witness ==
  /\ phase = "done"
  /\ budget_level = "low"
  /\ callsStarted = LowCalls
  /\ Cardinality(Entities) > 2 * LowCalls

\* C2: within a run tokens_remaining goes down by exactly one with every call
\* that is started and by nothing else (not when a call succeeds, fails or times
\* out); it never goes up, never below zero, and no call starts at zero.
C2_TokenAccounting ==
  [][(phase = "running" /\ phase' \in {"running", "done", "error"}) =>
       /\ Len(attempted') - Len(attempted) \in {0, 1}
       /\ tokens_remaining' = tokens_remaining - (Len(attempted') - Len(attempted))
       /\ tokens_remaining' <= tokens_remaining
       /\ tokens_remaining' >= 0
       /\ (Len(attempted') > Len(attempted) => tokens_remaining > 0)]_vars

C2_Witness ==
  /\ phase = "done"
  /\ tokens_remaining = 0
  /\ lastOutcome = "timeout"
  /\ \E e \in Entities : status[e] = "ok"
  /\ Len(attempted) = budget_to_call_count(budget_level)

\* C3: calls are attempted in priority order (campus, critical buildings,
\* remaining buildings, rooms of critical buildings): every entity of a higher
\* class than an attempted one was attempted before it; when the run ends every
\* entity without an attempt has the empty list and the run is no error; with
\* low over 1 campus, 2 buildings and 10 rooms exactly 3 entities are attempted.
C3_PriorityOrder ==
  /\ \A i \in 1..Len(attempted) :
       /\ attempted[i] \in Ranked
       /\ \A e \in Ranked :
            Rank(e) < Rank(attempted[i])
              => \E j \in 1..(i - 1) : attempted[j] = e
  /\ phase # "error"
  /\ phase = "done" =>
       /\ \A e \in Entities \ Range(attempted) :
            response.recommendations[e] = <<>>
       /\ (budget_level = "low" /\ numBuildings = 2 /\ roomsPer = 5)
            => Cardinality(Range(attempted)) = 3

C3_Witness ==
  /\ phase = "done"
  /\ budget_level = "low"
  /\ numBuildings = 2
  /\ roomsPer = 5
  /\ critical = {2}
  /\ attempted = <<Campus, Bldg(2), Bldg(1)>>
  /\ tokens_remaining = 0

C5_ConcurrentBudgetBound ==
  phase \in {"running", "done"} =>
    /\ callsStarted <= budget_to_call_count(budget_level)
    /\ callsStarted + tokens_remaining = budget_to_call_count(budget_level)
    /\ tokens_remaining >= 0
    /\ Cardinality({w \in Workers : wpc[w] = "take"}) <= 1

C5_Witness ==
  /\ phase = "running"
  /\ tokens_remaining = 0
  /\ nextIdx <= Len(queue)
  /\ \A w \in Workers : wpc[w] = "calling"

C6_Safe ==
  /\ phase # "error"
  /\ phase = "done" =>
       /\ response.kind = "analysis"
       /\ response.metrics = Entities
       /\ \A e \in Entities :
            /\ status[e] = "failed" => response.recommendations[e] = <<>>
            /\ status[e] = "ok" => response.recommendations[e] # <<>>

\* C6: a failed or timed-out call gives its entity the empty list and touches no
\* other entity's list; the run never enters an error state and, once started,
\* ends with a response that carries the metrics of every entity.
C6_FailureIsolated ==
  /\ []C6_Safe
  /\ (phase = "running") ~> (phase = "done")

C6_Witness ==
  /\ phase = "done"
  /\ \E e \in Entities : status[e] = "failed"
  /\ \E e \in Entities : status[e] = "ok"
  /\ response.metrics = Entities
  /\ Cardinality(Entities) > 3

-----------------------------------------------------------------------------
(***************************************************************************)
(* Properties of RoomConfigPanel                                           *)
(***************************************************************************)
\* C7: when image detections for two different rooms were in flight together
\* and both succeeded, then as the later one completes each of the two rooms
\* has its own detected person_count as avgOccupancy, whatever the order of
\* the responses.
C7_ConcurrentDetectionsIndependent ==
  cfgEvent.kind = "detected" =>
    /\ roomConfigs[cfgEvent.roomId].avgOccupancy = cfgEvent.person_count
    /\ \A q \in cfgEvent.peers :
         q[1] # cfgEvent.roomId => roomConfigs[q[1]].avgOccupancy = q[2]

\* C9: a failed image detection changes no room's configuration, sets
\* detectionError and puts detectingRoom back to null; after a failure an edit
\* still writes its key and a detection that succeeds still writes the count
\* and the preview of its room.
C9_FailedDetectionIsolated ==
  [][/\ cfgEvent'.kind = "detect_failed" =>
          /\ roomConfigs' = roomConfigs
          /\ detectionError' # NoError
          /\ detectingRoom' = NoRoom
     /\ (cfgHadFailure /\ cfgEvent'.kind = "edit") =>
          /\ roomConfigs'[cfgEvent'.roomId][cfgEvent'.key] = cfgEvent'.value
          /\ roomConfigs'[cfgEvent'.roomId].isModified
     /\ (cfgHadFailure /\ cfgEvent'.kind = "detected") =>
          /\ roomConfigs'[cfgEvent'.roomId].avgOccupancy = cfgEvent'.person_count
          /\ roomConfigs'[cfgEvent'.roomId].isModified
          /\ detectionPreviews'[cfgEvent'.roomId] = cfgEvent'.person_count
          /\ detectingRoom' = NoRoom]_vars

C9_Witness ==
  /\ cfgHadFailure
  /\ cfgEvent.kind = "detected"
  /\ cfgEvent.person_count > 0
  /\ roomConfigs[cfgEvent.roomId].avgOccupancy = cfgEvent.person_count
  /\ detectionError # NoError
  /\ detectingRoom = NoRoom

\* C19: writing the same occupancy count to the same room twice in a row leaves
\* the room's avgOccupancy equal to the count and roomConfigs, and with it the
\* set of rooms and the number of modified rooms, exactly as after the first
\* write; no other state of the panel changes.
C19_RepeatedWriteIdempotent ==
  [][(/\ cfgEdits' = cfgEdits + 1
      /\ cfgEvent'.kind = "edit"
      /\ cfgEvent'.repeated
      /\ cfgEvent'.key = "avgOccupancy") =>
       /\ roomConfigs' = roomConfigs
       /\ roomConfigs'[cfgEvent'.roomId].avgOccupancy = cfgEvent'.value
       /\ DOMAIN roomConfigs' = DOMAIN roomConfigs
       /\ Cardinality({id \in DOMAIN roomConfigs' : roomConfigs'[id].isModified})
            = Cardinality({id \in DOMAIN roomConfigs : roomConfigs[id].isModified})
       /\ UNCHANGED <<detectingRoom, detectionPreviews, detectionError>>]_vars

C19_Witness ==
  /\ cfgEvent.kind = "edit"
  /\ cfgEvent.repeated
  /\ cfgEvent.key = "avgOccupancy"
  /\ cfgEvent.value > 0
  /\ roomConfigs[cfgEvent.roomId].avgOccupancy = cfgEvent.value
  /\ \E id \in DOMAIN roomConfigs : ~roomConfigs[id].isModified

-----------------------------------------------------------------------------
(***************************************************************************)
(* Properties of MobileCameraDetection                                     *)
(***************************************************************************)
\* C8: a process-frame response whose request was sent before detection was
\* stopped (Stop button or modal closed) changes none of personCount,
\* occupancyLevel, capacity, processedFrame and detectionHistory.
C8_LateResponseDiscarded ==
  [][(camEvent'.kind = "response" /\ camEvent'.afterStop) =>
       UNCHANGED <<personCount, occupancyLevel, capacity, processedFrame,
                   detectionHistory>>]_vars

\* C24: loading is true whenever at least one process-frame request is in
\* flight, also when the interval or the Capture button starts a request while
\* an earlier one is still pending.
C24_LoadingWhileInFlight ==
  camInFlight + camStale > 0 => loading

\* C25: once stopAutoProcessing has run (Stop button or closing the modal) and
\* until the next Start Detection, no interval timer exists and no camera
\* stream is active, also when the permission request of Start Detection was
\* still pending when stop ran.  The timer is set by every Start Detection and
\* cleared by stop alone, so "no timer" is the time from a stop (or the mount)
\* to the next Start Detection.
C25_StopIsFinal ==
  /\ camEvent.kind \in {"stop", "close"} => ~processingIntervalRef.set
  /\ ~processingIntervalRef.set =>
       (~streamRef /\ ~isStreaming /\ leakedStreams = 0)

-----------------------------------------------------------------------------
(***************************************************************************)
(* Properties of RoomAnalysisPage                                          *)
(***************************************************************************)
\* C10: for every occupancy and every capacity > 0 the level of a rendered row
\* is high iff occupancy/capacity >= 0.70, medium iff 0.30 <= occupancy/capacity
\* < 0.70 and low otherwise, whatever the rest of the page's state is.
C10_OccupancyLevelThresholds ==
  (rapLevel # "unrendered" /\ rapRoom.capacity > 0) =>
    LET o == rapRoom.current_occupancy
        c == rapRoom.capacity
    IN /\ rapLevel \in {"high", "medium", "low"}
       /\ rapLevel = "high" <=> 10 * o >= 7 * c
       /\ rapLevel = "medium" <=> (10 * o >= 3 * c /\ 10 * o < 7 * c)
       /\ rapLevel = "low" <=> 10 * o < 3 * c

C10_Witness ==
  /\ rapLevel = "high"
  /\ sortBy = "energy"
  /\ rapRoom.capacity = 10
  /\ rapRoom.current_occupancy = 7

\* C23: with sortBy = priority every room of filteredRooms whose priority is
\* high stands before every room whose priority is medium.
C23_HighBeforeMedium ==
  sortBy = "priority" =>
    \A i, j \in 1..Len(filteredRooms) :
      (/\ getRoomPriority(filteredRooms[i]) = "high"
       /\ getRoomPriority(filteredRooms[j]) = "medium") => i < j

-----------------------------------------------------------------------------
(***************************************************************************)
(* Properties of the demo-mode data generator                              *)
(***************************************************************************)
\* C11: every room record of generateMockRoomData has occupancy_level high iff
\* current_occupancy / capacity >= 0.70, medium iff 0.30 <= ratio < 0.70 and
\* low otherwise, rooms whose ratio is exactly 0.30 or 0.70 included.
C11_MockLevelThresholds ==
  \A i \in 1..Len(mockRooms) :
    LET o == mockRooms[i].current_occupancy
        c == mockRooms[i].capacity
        level == mockRooms[i].occupancy_level
    IN /\ level \in {"high", "medium", "low"}
       /\ level = "high" <=> 10 * o >= 7 * c
       /\ level = "medium" <=> (10 * o >= 3 * c /\ 10 * o < 7 * c)
       /\ level = "low" <=> 10 * o < 3 * c

\* C12: every room record of generateMockRoomData has current_occupancy >= 0,
\* for every capacity, time of day, random draw and avg_occupancy (absent or 0
\* included).
C12_MockOccupancyNonNegative ==
  \A i \in 1..Len(mockRooms) : mockRooms[i].current_occupancy >= 0

\* The adjustment factors of energyMultiplier over 10, 10, 10 and 20
AdjustmentFactor(name, envParams) ==
  CASE name = "ac_on" -> IF envParams.ac_on = FALSE THEN 6 ELSE 10
    [] name = "lights_on" -> IF envParams.lights_on = FALSE THEN 7 ELSE 10
    [] name = "fans_on" -> IF envParams.fans_on THEN 11 ELSE 10
    [] name = "computers_count" ->
         IF envParams.computers_count > 0 THEN 20 + envParams.computers_count
         ELSE 20

AdjustmentNames == <<"ac_on", "lights_on", "fans_on", "computers_count">>

\* The occupancy term with the adjustments applied in the order given
RECURSIVE AdjustedIn(_, _, _)
AdjustedIn(m, order, envParams) ==
  IF order = <<>> THEN m
  ELSE AdjustedIn(m * AdjustmentFactor(AdjustmentNames[Head(order)], envParams),
                  Tail(order), envParams)

RECURSIVE TotalOver(_, _, _)
TotalOver(objs, field, positions) ==
  IF positions = {} THEN 0
  ELSE LET i == CHOOSE x \in positions : TRUE
       IN objs[i][field] + TotalOver(objs, field, positions \ {i})

\* rate, in tenths of a percent, is occupancy / roomCapacity x 100 to one decimal
IsRateOf(rate, occupancy, roomCapacity) ==
  2 * Abs(rate * roomCapacity - 1000 * occupancy) <= roomCapacity

\* objs in the order the permutation p of its positions gives
Permuted(objs, p) == [i \in 1..Len(objs) |-> objs[p[i]]]

\* C13: a building is in critical_buildings only if its total_energy_kw exceeds
\* the energy threshold and its occupancy_rate is low; a building with high
\* energy and high occupancy (70% or more) is never listed.
C13_CriticalNeedsLowOccupancy ==
  mockCampus.kind = "analysis" =>
    \A i \in 1..Len(mockCampus.critical_buildings) :
      LET entry == mockCampus.critical_buildings[i]
      IN /\ entry.energy_kw > CriticalEnergyKw * 100
         /\ entry.occupancy_rate < 700

\* C14: the campus occupancy_rate is the sum of the buildings' total_occupancy
\* over the sum of their total_capacity x 100 (to the one decimal it is given
\* with), also when the buildings have different capacities.
C14_CampusRateIsRatioOfSums ==
  mockCampus.kind = "analysis" =>
    IsRateOf(mockCampus.campus_metrics.occupancy_rate,
             TotalOver(mockBuildings, "total_occupancy", DOMAIN mockBuildings),
             TotalOver(mockBuildings, "total_capacity", DOMAIN mockBuildings))

\* C15: for every building rollup total_occupancy and total_capacity are the
\* sums of current_occupancy and capacity over exactly the rooms of
\* room_states, and occupancy_rate is total_occupancy / total_capacity x 100
\* (to the one decimal it is given with), 0 when the total capacity is 0.
C15_BuildingRollup ==
  \A k \in 1..Len(mockBuildings) :
    LET b == mockBuildings[k]
        rooms == b.room_states
    IN /\ b.total_rooms = Len(rooms)
       /\ b.total_occupancy = TotalOver(rooms, "current_occupancy", DOMAIN rooms)
       /\ b.total_capacity = TotalOver(rooms, "capacity", DOMAIN rooms)
       /\ IF b.total_capacity = 0 THEN b.occupancy_rate = 0
          ELSE IsRateOf(b.occupancy_rate, b.total_occupancy, b.total_capacity)

C15_Witness ==
  \E k \in 1..Len(mockBuildings) :
    LET b == mockBuildings[k]
    IN /\ Len(b.room_states) = 2
       /\ b.room_states[1].capacity # b.room_states[2].capacity
       /\ b.total_capacity = 70
       /\ b.total_occupancy = 20
       /\ b.occupancy_rate = 286

\* C16: the totals of a building (energy, occupancy, capacity, room count) are
\* the same for every order of its rooms, and the totals of the campus are the
\* same for every order of its buildings.
C16_RollupOrderInvariant ==
  /\ \A k \in 1..Len(mockBuildings) :
       LET b == mockBuildings[k]
       IN \A p \in Permutations(1..Len(b.room_states)) :
            LET other == rollupOf(b.building_id, b.total_rooms,
                                  Permuted(b.room_states, p), TRUE)
            IN /\ other.total_energy_kw = b.total_energy_kw
               /\ other.total_occupancy = b.total_occupancy
               /\ other.total_capacity = b.total_capacity
               /\ other.total_rooms = b.total_rooms
  /\ mockCampus.kind = "analysis" =>
       \A p \in Permutations(1..Len(mockBuildings)) :
         LET other == campusAnalysisOf(Permuted(mockBuildings, p),
                                       TRUE).campus_metrics
             metrics == mockCampus.campus_metrics
         IN /\ other.total_energy_kw = metrics.total_energy_kw
            /\ other.total_occupancy = metrics.total_occupancy
            /\ other.total_capacity = metrics.total_capacity
            /\ other.total_rooms = metrics.total_rooms
            /\ other.total_buildings = metrics.total_buildings

C16_Witness ==
  /\ mockCampus.kind = "analysis"
  /\ \A k \in 1..Len(mockBuildings) :
       /\ Len(mockBuildings[k].room_states) = 2
       /\ mockBuildings[k].room_states[1].estimated_energy_kw
            # mockBuildings[k].room_states[2].estimated_energy_kw
  /\ mockBuildings[1].total_energy_kw # mockBuildings[2].total_energy_kw
  /\ mockCampus.campus_metrics.total_rooms = 2 * Len(buildingIds)

-----------------------------------------------------------------------------
(***************************************************************************)
(* Properties of the recommendation filters                                *)
(***************************************************************************)
\* The boilerplate phrases of the component rendered last
BoilerplateOf(component) ==
  IF component = "RecommendationPanel"
    THEN {"no immediate actions", "operating efficiently", "monitor"}
    ELSE {"no immediate", "operating efficiently"}

\* The length floor of 10 characters and the boilerplate phrases
KeptFromTen(rec) ==
  /\ rec.trimmedLength >= 10
  /\ rec.phrases \cap BoilerplateOf(frComponent) = {}

\* C17: a filter drops a string exactly when its length is under 10 characters
\* or it matches the boilerplate phrases; a non-boilerplate recommendation of
\* length exactly 10 is kept, and the kept strings keep their relative order.
C17_FilterKeepsFromTen ==
  frComponent # "none" => frShown = SelectSeq(frRecommendations, KeptFromTen)

-----------------------------------------------------------------------------
(***************************************************************************)
(* Properties of the Simulation Engine                                     *)
(***************************************************************************)
\* C20: a simulation run, with any override, leaves the persisted RoomState
\* store as it was: every room's stored state after the run equals its state
\* before the run.
C20_SimulationLeavesStore ==
  [][simRuns' # simRuns =>
       \A id \in SimRoomIds : roomStore'[id] = roomStore[id]]_vars

C20_Witness ==
  /\ simResult.kind = "simulation"
  /\ simResult.override.kind = "close"
  /\ simResult.simulated.total_occupancy < simResult.baseline.total_occupancy
  /\ simResult.baseline = Analyse(roomStore)
  /\ \E id \in SimRoomIds :
       /\ BuildingOfRoom(id) = simResult.override.building_id
       /\ roomStore[id].current_occupancy > 0

-----------------------------------------------------------------------------
(***************************************************************************)
(* Properties of the Simulation page                                       *)
(***************************************************************************)
\* C21: a simulation result's recommendation is Implement iff its savings
\* percentage strictly exceeds the adoption threshold of 10 % and Needs Review
\* otherwise (baseline 100 kW and simulated 65 kW give energy_savings_pct 35
\* and Implement); the page shows the implementation banner iff the value is
\* Implement.
C21_RecommendationThreshold ==
  pgResult # NoResult =>
    LET b == pgResult.baseline.total_energy_kw
        s == pgResult.simulated.total_energy_kw
    IN /\ pgResult.recommendation = "Implement" <=> (b - s) * 100 > 10 * b
       /\ pgResult.recommendation # "Implement"
            => pgResult.recommendation = "Needs Review"
       /\ (b = 100 /\ s = 65) =>
            /\ pgResult.comparison.energy_savings_pct = [num |-> 35, den |-> 1]
            /\ pgResult.recommendation = "Implement"
       /\ ResultsShown =>
            (RecommendationBox(pgResult) = "rec-success"
               <=> pgResult.recommendation = "Implement")

C21_Witness ==
  /\ ResultsShown
  /\ pgResult.baseline.total_energy_kw = 100
  /\ pgResult.simulated.total_energy_kw = 65
  /\ pgResult.recommendation = "Implement"
  /\ RecommendationBox(pgResult) = "rec-success"

\* C22: a request the page sends for a run started with custom settings
\* enabled carries num_rooms in 5..50, num_buildings in 1..5 and a budget_level
\* of low, medium or high; for a run started with custom settings disabled the
\* parameters object is empty; no request is sent while another run is still
\* loading.
C22_RequestParameters ==
  pgSent # NoRequest =>
    LET p == pgSent.scenario.parameters
    IN /\ ~pgSent.duringRun
       /\ p.empty <=> ~pgSent.custom
       /\ ~p.empty =>
            /\ p.num_rooms \in 5..50
            /\ p.num_buildings \in 1..5
            /\ p.budget_level \in {"low", "medium", "high"}

C22_Witness ==
  /\ pgSent # NoRequest
  /\ pgSent.custom
  /\ pgSent.scenario.parameters.num_rooms = 50
  /\ pgSent.scenario.parameters.num_buildings = 1
  /\ pgStarted = 2

-----------------------------------------------------------------------------
(***************************************************************************)
(* Properties of ChatPanel                                                 *)
(***************************************************************************)
\* C26: at most one chat request is in flight at any time; loading is true as
\* long as a request is in flight; sendMessage sends nothing while loading is
\* true or the trimmed input is empty.
C26_OneRequestInFlight ==
  /\ [](Cardinality(chatPending) <= 1 /\ (chatPending # {} => chatLoading))
  /\ [][chatSends' # chatSends =>
          /\ ~chatLoading
          /\ input \notin {"", "  "}
          /\ chatPending = {}
          /\ chatLoading']_vars

C26_Witness ==
  /\ chatSends = 2
  /\ Cardinality(chatPending) = 1
  /\ chatLoading
  /\ Len(messages) = 3

\* C27: after clearChat the message list stays empty until the user sends a
\* new message, also when a request that was in flight settles afterwards.
C27_ClearedStaysEmpty ==
  chatCleared => messages = <<>>

-----------------------------------------------------------------------------
(***************************************************************************)
(* Properties of the scope effect of RoomConfigPanel                       *)
(***************************************************************************)
\* The room ids of a scope: in the later version rooms 1..numRooms of every
\* building; in the earlier version numRooms rooms spread evenly, the first
\* numRooms mod numBuildings buildings holding one room more.
ScopeIds(version, nRooms, nBuildings) ==
  IF version = "later"
  THEN {RoomIdOf(b, r) : b \in 1..nBuildings, r \in 1..nRooms}
  ELSE UNION {{RoomIdOf(b, r) :
                 r \in 1..((nRooms \div nBuildings) +
                           (IF b <= nRooms % nBuildings THEN 1 ELSE 0))} :
              b \in 1..nBuildings}

\* C28: after the scope effect has run for any numRooms and numBuildings the
\* key set of roomConfigs is exactly the set of valid room ids of the scope,
\* every id that was present keeps its configuration (isModified included),
\* every new id holds globalConfig with isModified false, and selectedRoomId
\* is a valid id or null.
C28_ScopeReconciled ==
  [][scopeRuns' # scopeRuns =>
       LET valid == ScopeIds(scopeVersion, scopeNumRooms', scopeNumBuildings')
       IN /\ DOMAIN roomConfigs' = valid
          /\ \A id \in valid :
               roomConfigs'[id] =
                 IF id \in DOMAIN roomConfigs THEN roomConfigs[id]
                 ELSE [avgOccupancy |-> globalConfig.avgOccupancy,
                       lightsOn |-> globalConfig.lightsOn,
                       isModified |-> FALSE]
          /\ selectedRoomId' \in valid \cup {NoRoom}]_vars

C28_Witness ==
  /\ scopeRuns > 0
  /\ scopeEvent.keptModified
  /\ scopeEvent.added
  /\ scopeEvent.removed
  /\ scopeEvent.reselected
  /\ \E id \in DOMAIN roomConfigs : roomConfigs[id].isModified
  /\ selectedRoomId \in DOMAIN roomConfigs

\* Rooms of building b in validRoomIds
CountOfBuilding(validRoomIds, b) ==
  Cardinality({i \in 1..Len(validRoomIds) : validRoomIds[i].b = b})

\* C29: in the room distribution of the earlier panel, for every numBuildings
\* >= 1 and numRooms >= 0, the per-building room counts sum to numRooms and any
\* two buildings differ by at most one room.
C29_RoomDistribution ==
  (scopeVersion = "earlier" /\ scopeNumBuildings >= 1) =>
    LET valid == scopeEvent.validRoomIds
    IN /\ Len(valid) = scopeNumRooms
       /\ \A i \in 1..Len(valid) : valid[i].b \in 1..scopeNumBuildings
       /\ \A i, j \in 1..Len(valid) : i # j => valid[i].id # valid[j].id
       /\ \A b1, b2 \in 1..scopeNumBuildings :
            CountOfBuilding(valid, b1) - CountOfBuilding(valid, b2) <= 1

C29_Witness ==
  /\ scopeVersion = "earlier"
  /\ scopeRuns > 0
  /\ scopeNumBuildings = 2
  /\ scopeNumRooms = 3
  /\ CountOfBuilding(scopeEvent.validRoomIds, 1) = 2
  /\ CountOfBuilding(scopeEvent.validRoomIds, 2) = 1

-----------------------------------------------------------------------------
(***************************************************************************)
(* Properties of ExcelUpload                                               *)
(***************************************************************************)
\* C30: in the campus data ExcelUpload produces, the building_id of every room
\* is the id of exactly one entry of buildings: two distinct building names
\* never share an id and no room references an id that no building has.
C30_BuildingIdsUnique ==
  parsedData # NoData =>
    /\ \A n1, n2 \in DOMAIN parsedData.buildings :
         n1 # n2 => parsedData.buildings[n1].id # parsedData.buildings[n2].id
    /\ \A r \in DOMAIN parsedData.rooms :
         Cardinality({n \in DOMAIN parsedData.buildings :
                        parsedData.buildings[n].id =
                          parsedData.rooms[r].building_id}) = 1

====
